---- MODULE Spec2Model ----
(***************************************************************************)
(* Retrieval fusion, reranking, structured-answer parsing and the ask      *)
(* pipeline of the knowledge base (src/src/models/es_vector_store.py,      *)
(* src/src/utils/bge_reranker.py, src/src/utils/jina_reranker.py,          *)
(* src/src/langchain_integration/chains.py, src/src/langchain_enhanced_kb) *)
(*                                                                         *)
(* Python floats are modelled as exact rationals [n, d]; Python lists as   *)
(* sequences; 0-based Python indexes are kept 0-based in the data and      *)
(* shifted by one where a sequence is accessed.                            *)
(***************************************************************************)
EXTENDS Integers, Sequences, FiniteSets, TLC

(* ------------------------------ bounds --------------------------------- *)
NumIds == 3
MaxScore == 2
MaxHits == 2
MaxTopK == 2
MaxItems == 2
MaxDocs == 3
MaxCalls == 2
MaxText == 3
NumThreads == 2
MaxOps == 4
MaxBatch == 2
MaxFiles == 3
MaxQuestion == 3
MaxPages == 2

(* ---------------------------- rationals -------------------------------- *)
Rat(n, d) == [n |-> n, d |-> d]
RLess(a, b) == a.n * b.d < b.n * a.d
REq(a, b) == a.n * b.d = b.n * a.d
RAdd(a, b) == Rat(a.n * b.d + b.n * a.d, a.d * b.d)
RMul(a, b) == Rat(a.n * b.n, a.d * b.d)
RSub(a, b) == Rat(a.n * b.d - b.n * a.d, a.d * b.d)
Zero == Rat(0, 1)
One == Rat(1, 1)

Min(a, b) == IF a < b THEN a ELSE b

(* Python s[:k] for k >= 0 *)
Take(s, k) == SubSeq(s, 1, Min(k, Len(s)))

(* a plausible slip: an unstable sort, equal keys leave in reverse order *)
SortRankLastFirst(keys, i) ==
    1 + Cardinality({j \in 1..Len(keys) :
            RLess(keys[i], keys[j]) \/ (REq(keys[j], keys[i]) /\ j > i)})
(* list.sort(key=..., reverse=True): stable, descending.  keys[i] is the   *)
(* key of the i-th element; the result lists the indexes in sorted order.  *)
SortRank(keys, i) ==
    1 + Cardinality({j \in 1..Len(keys) :
            RLess(keys[i], keys[j]) \/ (REq(keys[j], keys[i]) /\ j < i)})
SortDescPerm(keys) ==
    [p \in 1..Len(keys) |-> CHOOSE i \in 1..Len(keys) : SortRank(keys, i) = p]

(* ------------------------- the document store -------------------------- *)
Ids == 1..NumIds
Content(id) == 100 + id
Metadata(id) == 200 + id
Hit(id, s) == [id |-> id, score |-> Rat(s, 1), content |-> Content(id),
               metadata |-> Metadata(id)]


(* ----------------- ElasticSearchClient.hybrid_search: fusion ----------- *)
HasId(all, id) == \E i \in 1..Len(all) : all[i].id = id
IndexOfId(all, id) == CHOOSE i \in 1..Len(all) : all[i].id = id

(* all_results is a dict keyed by id; a Python dict iterates in insertion  *)
(* order and an overwritten key keeps its place: a sequence of entries.    *)
VectorEntry(item) ==
    [id |-> item.id, content |-> item.content, metadata |-> item.metadata,
     vector_score |-> item.score, keyword_score |-> Zero]
KeywordEntry(item) ==
    [id |-> item.id, content |-> item.content, metadata |-> item.metadata,
     vector_score |-> Zero, keyword_score |-> item.score]

RECURSIVE AddVectorResults(_, _)
AddVectorResults(all, items) ==
    IF items = <<>> THEN all
    ELSE LET item == Head(items)
             next == IF HasId(all, item.id)
                     THEN [all EXCEPT ![IndexOfId(all, item.id)] = VectorEntry(item)]
                     ELSE Append(all, VectorEntry(item))
         IN  AddVectorResults(next, Tail(items))

(* a plausible slip: the sparse hit is inserted without the membership test *)
MergeKeywordItemNoDedup(all, item) == Append(all, KeywordEntry(item))
MergeKeywordItem(all, item) ==
    IF ~HasId(all, item.id)
    THEN Append(all, KeywordEntry(item))
    ELSE [all EXCEPT ![IndexOfId(all, item.id)].keyword_score = item.score]

RECURSIVE AddKeywordResults(_, _)
AddKeywordResults(all, items) ==
    IF items = <<>> THEN all
    ELSE AddKeywordResults(MergeKeywordItem(all, Head(items)), Tail(items))

(* a plausible slip: the two weights exchanged *)
HybridScoreSwapped(scores, vector_weight) ==
    RAdd(RMul(scores.keyword_score, vector_weight),
         RMul(scores.vector_score, RSub(One, vector_weight)))
HybridScore(scores, vector_weight) ==
    RAdd(RMul(scores.vector_score, vector_weight),
         RMul(scores.keyword_score, RSub(One, vector_weight)))

ScoreAll(all, vector_weight) ==
    [i \in 1..Len(all) |->
        [id |-> all[i].id, content |-> all[i].content, metadata |-> all[i].metadata,
         hybrid_score |-> HybridScore(all[i], vector_weight),
         vector_score |-> all[i].vector_score,
         keyword_score |-> all[i].keyword_score]]

SortByHybridScore(list) ==
    LET perm == SortDescPerm([i \in 1..Len(list) |-> list[i].hybrid_score])
    IN  [p \in 1..Len(list) |-> list[perm[p]]]

(* lines 220-266: pre_rerank_results *)
PreRerankResults(vector_results, keyword_results, vector_weight) ==
    SortByHybridScore(
        ScoreAll(AddKeywordResults(AddVectorResults(<<>>, vector_results),
                                   keyword_results),
                 vector_weight))

(* ------------------------------ rerankers ------------------------------ *)
EmptyText == 0
None == 0

(* a plausible slip: the top_k cut forgotten in the fallback *)
PassThroughAll(documents, top_k) ==
    [i \in 1..Len(documents) |->
        [index |-> i - 1, score |-> Rat(1, i), text |-> documents[i],
         original_rank |-> i - 1, rerank_score |-> Rat(1, i)]]
(* [{'index': i, 'score': 1.0/(i+1), ...} for i, doc in enumerate(documents[:top_k])] *)
PassThrough(documents, top_k) ==
    [i \in 1..Len(Take(documents, top_k)) |->
        [index |-> i - 1, score |-> Rat(1, i), text |-> documents[i],
         original_rank |-> i - 1, rerank_score |-> Rat(1, i)]]

(* score_list sorted by score descending, then the first top_k of it *)
TopScored(documents, scores, top_k) ==
    LET perm == SortDescPerm([i \in 1..Len(documents) |-> Rat(scores[i], 1)])
    IN  [p \in 1..Min(top_k, Len(documents)) |->
            [index |-> perm[p] - 1, score |-> Rat(scores[perm[p]], 1),
             text |-> documents[perm[p]], original_rank |-> perm[p] - 1,
             rerank_score |-> Rat(scores[perm[p]], 1)]]

CrossEncoderRerank(initialized, documents, top_k, resp) ==
    IF ~initialized THEN PassThrough(documents, top_k)
    ELSE IF resp.kind = "raise" THEN PassThrough(documents, top_k)
    ELSE TopScored(documents, resp.scores, top_k)

(* one entry of result['results'] of the remote endpoint *)
JinaApiItem(documents, item, i) ==
    LET doc_idx == IF item.has_index THEN item.index ELSE i - 1
        score == IF item.has_score THEN Rat(item.relevance_score, 1) ELSE Zero
    IN  [index |-> doc_idx, score |-> score,
         text |-> IF doc_idx < Len(documents) THEN documents[doc_idx + 1] ELSE EmptyText,
         original_rank |-> doc_idx, rerank_score |-> score]

JinaApiRerank(initialized, documents, top_k, resp) ==
    IF ~initialized THEN PassThrough(documents, top_k)
    ELSE CASE resp.kind = "raise" -> PassThrough(documents, top_k)
           [] resp.kind = "status" -> PassThrough(documents, top_k)
           [] OTHER ->
                IF resp.has_results
                THEN [i \in 1..Len(resp.results) |->
                        JinaApiItem(documents, resp.results[i], i)]
                ELSE <<>>


(* lines 259-281: one result per document until top_k were processed, then *)
(* results.sort(key=rerank_score, reverse=True)                            *)
LlmResults(documents, rankings, top_k) ==
    LET count == IF documents = <<>> THEN 0
                 ELSE Min(IF top_k < 1 THEN 1 ELSE top_k, Len(documents))
        built == [i \in 1..count |->
                    LET score == IF i <= Len(rankings) /\ rankings[i].has_score
                                 THEN Rat(rankings[i].relevance_score, 1)
                                 ELSE Zero
                    IN  [index |-> i - 1, score |-> score, text |-> documents[i],
                         original_rank |-> i - 1, rerank_score |-> score]]
        perm == SortDescPerm([i \in 1..count |-> built[i].rerank_score])
    IN  [p \in 1..count |-> built[perm[p]]]

(* a plausible slip: a score derived from the block number *)
DashscopeRankingsByBlock(documents) ==
    [i \in 1..Len(documents) |-> [has_score |-> TRUE, relevance_score |-> i]]
(* line 253: the dashscope reply is kept as text, every ranking scores 0.0 *)
DashscopeRankings(documents) ==
    [i \in 1..Len(documents) |-> [has_score |-> TRUE, relevance_score |-> 0]]

(* openai: completions.parse raising, or message.parsed being None, ends  *)
(* in the except branch (lines 286-289).  dashscope: any reply that has    *)
(* output.choices is accepted without being parsed.                        *)
LlmRerank(initialized, provider, documents, top_k, resp) ==
    IF ~initialized THEN PassThrough(documents, top_k)
    ELSE IF resp.kind = "raise" THEN PassThrough(documents, top_k)
    ELSE IF provider = "openai"
         THEN IF resp.kind = "unparsable" THEN PassThrough(documents, top_k)
              ELSE LlmResults(documents, resp.rankings, top_k)
         ELSE LlmResults(documents, DashscopeRankings(documents), top_k)

(* UniversalBGEReranker.rerank *)
Rerank(model_type, initialized, provider, documents, top_k, resp) ==
    IF documents = <<>> THEN <<>>
    ELSE CASE model_type = "cross_encoder" ->
                CrossEncoderRerank(initialized, documents, top_k, resp)
           [] model_type = "jina_api" ->
                JinaApiRerank(initialized, documents, top_k, resp)
           [] model_type = "llm" ->
                LlmRerank(initialized, provider, documents, top_k, resp)
           [] OTHER -> CrossEncoderRerank(initialized, documents, top_k, resp)

(* JinaReranker.rerank (the local model): its fallback entries carry no    *)
(* original_rank / rerank_score keys                                       *)
JinaLocalPassThrough(documents, top_k) ==
    [i \in 1..Len(Take(documents, top_k)) |->
        [index |-> i - 1, score |-> Rat(1, i), text |-> documents[i]]]

JinaLocalRerank(initialized, documents, top_k, resp) ==
    IF ~initialized THEN JinaLocalPassThrough(documents, top_k)
    ELSE IF resp.kind = "raise" THEN JinaLocalPassThrough(documents, top_k)
    ELSE LET perm == SortDescPerm([i \in 1..Len(documents) |-> Rat(resp.scores[i], 1)])
         IN  [p \in 1..Min(top_k, Len(documents)) |->
                [index |-> perm[p] - 1, score |-> Rat(resp.scores[perm[p]], 1),
                 text |-> documents[perm[p]], original_rank |-> perm[p] - 1]]

(* UniversalBGEReranker.rerank_search_results, given what rerank returned.  *)
(* search_results[original_idx] raises IndexError past the end of the list. *)
Contents(search_results) == [i \in 1..Len(search_results) |-> search_results[i].content]

(* the rank fields written for the j-th entry of reranked *)
WithRankFields(result, reranked, j) ==
    [id |-> result.id, content |-> result.content, metadata |-> result.metadata,
     hybrid_score |-> result.hybrid_score, vector_score |-> result.vector_score,
     keyword_score |-> result.keyword_score,
     rerank_score |-> reranked[j].rerank_score,
     rerank_position |-> j,
     original_position |-> reranked[j].index + 1]

(* how many entries of reranked the loop handles before it ends or raises *)
Handled(search_results, reranked) ==
    LET bad == {i \in 1..Len(reranked) : reranked[i].index >= Len(search_results)}
    IN  IF bad = {} THEN Len(reranked)
        ELSE (CHOOSE i \in bad : \A j \in bad : i <= j) - 1

(* a plausible slip: no copy, the three fields are written into the dicts  *)
(* of the list that was passed in                                          *)
SearchResultsAfterNoCopy(search_results, reranked) ==
    [k \in 1..Len(search_results) |->
        LET writes == {j \in 1..Handled(search_results, reranked) :
                            reranked[j].index + 1 = k}
        IN  IF writes = {} THEN search_results[k]
            ELSE WithRankFields(search_results[k], reranked,
                                CHOOSE j \in writes : \A i \in writes : i <= j)]
(* the list that was passed in, after the call: line 341 takes a copy of   *)
(* each dict and lines 343-345 write to the copy                           *)
SearchResultsAfter(search_results, reranked) == search_results

AssembleReranked(search_results, reranked) ==
    IF Handled(search_results, reranked) < Len(reranked)
    THEN [raised |-> TRUE, results |-> <<>>,
          search_results |-> SearchResultsAfter(search_results, reranked)]
    ELSE [raised |-> FALSE,
          results |->
            [i \in 1..Len(reranked) |->
                WithRankFields(search_results[reranked[i].index + 1], reranked, i)],
          search_results |-> SearchResultsAfter(search_results, reranked)]

RerankSearchResults(model_type, initialized, provider, search_results, top_k, resp) ==
    IF search_results = <<>>
    THEN [raised |-> FALSE, results |-> <<>>, search_results |-> search_results]
    ELSE AssembleReranked(search_results,
            Rerank(model_type, initialized, provider, Contents(search_results),
                   top_k, resp))

SortByRerankScore(list) ==
    LET perm == SortDescPerm([i \in 1..Len(list) |-> list[i].rerank_score])
    IN  [p \in 1..Len(list) |-> list[perm[p]]]

(* ElasticSearchClient.hybrid_search.  rr describes the reranker of this   *)
(* call: imported (get_high_comp_reranker is not None), initialized, and   *)
(* the remote endpoint's response.  HighCompatibilityReranker is jina_api. *)
SearchFailed(resp) == resp.failed

HybridSearchAfterFusion(pre_rerank_results, top_k, use_reranker, rr) ==
    LET fallback == [raised |-> FALSE, reranked |-> FALSE,
                     results |-> Take(pre_rerank_results, top_k)]
    IN  IF use_reranker /\ rr.imported /\ rr.initialized
        THEN LET rs == RerankSearchResults("jina_api", TRUE, "dashscope",
                            pre_rerank_results,
                            Min(top_k * 2, Len(pre_rerank_results)), rr.resp)
             IN  IF rs.raised THEN fallback
                 ELSE [raised |-> FALSE, reranked |-> TRUE,
                       results |-> Take(SortByRerankScore(rs.results), top_k)]
        ELSE fallback

HybridSearch(vector_resp, keyword_resp, top_k, vector_weight, use_reranker, rr) ==
    IF SearchFailed(vector_resp) \/ SearchFailed(keyword_resp)
    THEN [raised |-> TRUE, reranked |-> FALSE, results |-> <<>>]
    ELSE HybridSearchAfterFusion(
            PreRerankResults(vector_resp.hits, keyword_resp.hits, vector_weight),
            top_k, use_reranker, rr)


(* ------------------- StructuredOutputParser.parse ---------------------- *)
(* A text is a sequence of lexemes: the punctuation of JSON, quoted string  *)
(* literals (the four keys and the literal "x"), the digit 1, a prose word, *)
(* a space, a newline and the two fence markers.  "Sf" is a quoted string   *)
(* literal whose content is the json fence marker.                          *)
KeyToks == {"Kstep", "Ksum", "Kpages", "Kfinal"}
StrToks == KeyToks \cup {"S", "Sf"}
WsToks == {"sp", "nl"}
FenceToks == {"fence_json", "fence", "Sf"}
JsonFenceToks == {"fence_json", "Sf"}
KeyName(t) ==
    CASE t = "Kstep" -> "step_by_step_analysis"
      [] t = "Ksum" -> "reasoning_summary"
      [] t = "Kpages" -> "relevant_pages"
      [] t = "Kfinal" -> "final_answer"
      [] t = "Sf" -> "fence_json"
      [] OTHER -> "x"
RequiredKeys == {KeyName(t) : t \in KeyToks}

(* Python values: str (its text), number, list, dict (ordered pairs) *)
StrVal(text) == [t |-> "str", v |-> text]
NumVal(n) == [t |-> "num", v |-> n]
ArrVal(items) == [t |-> "arr", v |-> items]
ObjVal(pairs) == [t |-> "obj", v |-> pairs]
Pair(k, val) == [key |-> k, val |-> val]
KeysOf(val) == IF val.t = "obj" THEN {val.v[i].key : i \in 1..Len(val.v)} ELSE {}

RECURSIVE SkipWs(_, _)
SkipWs(s, i) == IF i <= Len(s) /\ s[i] \in WsToks THEN SkipWs(s, i + 1) ELSE i
RECURSIVE DigitsEnd(_, _)
DigitsEnd(s, i) == IF i <= Len(s) /\ s[i] = "1" THEN DigitsEnd(s, i + 1) ELSE i

JFail == [ok |-> FALSE, val |-> NumVal(0), next |-> 0]
JOk(val, next) == [ok |-> TRUE, val |-> val, next |-> next]

(* json.loads: a recursive-descent reading of one value starting at s[i] *)
RECURSIVE JValue(_, _), JMembers(_, _, _), JElements(_, _, _)
JValue(s, i) ==
    LET j == SkipWs(s, i)
    IN  IF j > Len(s) THEN JFail
        ELSE CASE s[j] \in StrToks -> JOk(StrVal(<<KeyName(s[j])>>), j + 1)
               [] s[j] = "1" -> JOk(NumVal(DigitsEnd(s, j) - j), DigitsEnd(s, j))
               [] s[j] = "{" ->
                    LET k == SkipWs(s, j + 1)
                    IN  IF k <= Len(s) /\ s[k] = "}" THEN JOk(ObjVal(<<>>), k + 1)
                        ELSE JMembers(s, k, <<>>)
               [] s[j] = "[" ->
                    LET k == SkipWs(s, j + 1)
                    IN  IF k <= Len(s) /\ s[k] = "]" THEN JOk(ArrVal(<<>>), k + 1)
                        ELSE JElements(s, k, <<>>)
               [] OTHER -> JFail
JMembers(s, i, acc) ==
    LET k == SkipWs(s, i)
        c == SkipWs(s, k + 1)
    IN  IF k > Len(s) \/ s[k] \notin StrToks THEN JFail
        ELSE IF c > Len(s) \/ s[c] # ":" THEN JFail
        ELSE LET r == JValue(s, c + 1)
                 e == SkipWs(s, r.next)
                 acc2 == Append(acc, Pair(KeyName(s[k]), r.val))
             IN  IF ~r.ok \/ e > Len(s) THEN JFail
                 ELSE IF s[e] = "}" THEN JOk(ObjVal(acc2), e + 1)
                 ELSE IF s[e] = "," THEN JMembers(s, e + 1, acc2)
                 ELSE JFail
JElements(s, i, acc) ==
    LET r == JValue(s, i)
        e == SkipWs(s, r.next)
        acc2 == Append(acc, r.val)
    IN  IF ~r.ok \/ e > Len(s) THEN JFail
        ELSE IF s[e] = "]" THEN JOk(ArrVal(acc2), e + 1)
        ELSE IF s[e] = "," THEN JElements(s, e + 1, acc2)
        ELSE JFail

JsonLoads(s) ==
    LET r == JValue(s, 1)
    IN  IF r.ok /\ SkipWs(s, r.next) > Len(s) THEN r ELSE JFail

(* str.strip() *)
RECURSIVE StripLeft(_), StripRight(_)
StripLeft(s) == IF s # <<>> /\ Head(s) \in WsToks THEN StripLeft(Tail(s)) ELSE s
StripRight(s) ==
    IF s # <<>> /\ s[Len(s)] \in WsToks THEN StripRight(SubSeq(s, 1, Len(s) - 1)) ELSE s
Strip(s) == StripRight(StripLeft(s))
Contains(s, toks) == \E i \in 1..Len(s) : s[i] \in toks

(* str.split and str.join on the newline *)
RECURSIVE SplitLines(_, _, _)
SplitLines(s, i, cur) ==
    IF i > Len(s) THEN <<cur>>
    ELSE IF s[i] = "nl" THEN <<cur>> \o SplitLines(s, i + 1, <<>>)
    ELSE SplitLines(s, i + 1, Append(cur, s[i]))
RECURSIVE JoinLines(_)
JoinLines(lines) ==
    IF lines = <<>> THEN <<>>
    ELSE IF Len(lines) = 1 THEN lines[1]
    ELSE lines[1] \o <<"nl">> \o JoinLines(Tail(lines))

(* lines 84-97: the lines between an opening json fence and a closing fence *)
RECURSIVE FenceLines(_, _, _)
FenceLines(lines, inside_json, json_lines) ==
    IF lines = <<>> THEN json_lines
    ELSE LET line == Head(lines)
             ls == Strip(line)
             marker == (ls # <<>> /\ ls[1] = "fence_json") \/ ls = <<"fence">>
         IN  IF marker /\ ~inside_json /\ Contains(line, JsonFenceToks)
             THEN FenceLines(Tail(lines), TRUE, json_lines)
             ELSE IF marker /\ inside_json /\ ls = <<"fence">>
             THEN FenceLines(Tail(lines), FALSE, json_lines)
             ELSE FenceLines(Tail(lines), inside_json,
                    IF inside_json THEN Append(json_lines, line) ELSE json_lines)

ProcessedTextAfterFence(text) ==
    LET stripped == Strip(text)
        first == CHOOSE i \in 1..Len(stripped) :
                    stripped[i] \in FenceToks /\ \A j \in 1..i - 1 : stripped[j] \notin FenceToks
    IN  IF Contains(stripped, FenceToks)
        THEN Strip(SubSeq(stripped, first + 1, Len(stripped)))
        ELSE stripped
(* lines 79-100 *)
ProcessedText(text) ==
    LET stripped == Strip(text)
        json_lines == FenceLines(SplitLines(stripped, 1, <<>>), FALSE, <<>>)
    IN  IF Contains(stripped, FenceToks) /\ json_lines # <<>>
        THEN Strip(JoinLines(json_lines))
        ELSE stripped

(* str.find / str.rfind of one lexeme, 0 when absent *)
FindFirst(s, tok) ==
    IF \E i \in 1..Len(s) : s[i] = tok
    THEN CHOOSE i \in 1..Len(s) : s[i] = tok /\ \A j \in 1..i - 1 : s[j] # tok
    ELSE 0
FindLast(s, tok) ==
    IF \E i \in 1..Len(s) : s[i] = tok
    THEN CHOOSE i \in 1..Len(s) : s[i] = tok /\ \A j \in i + 1..Len(s) : s[j] # tok
    ELSE 0

(* lines 123-126: a comma before a closing brace or bracket is dropped,    *)
(* then each newline becomes the two characters backslash-n, which are no  *)
(* JSON whitespace                                                         *)
RECURSIVE DropTrailingCommas(_, _)
DropTrailingCommas(s, i) ==
    IF i > Len(s) THEN <<>>
    ELSE LET k == SkipWs(s, i + 1)
         IN  IF s[i] = "," /\ k <= Len(s) /\ s[k] \in {"}", "]"}
             THEN DropTrailingCommas(s, i + 1)
             ELSE <<s[i]>> \o DropTrailingCommas(s, i + 1)
EscapeNewlines(s) == [i \in 1..Len(s) |-> IF s[i] = "nl" THEN "bsn" ELSE s[i]]
CleanedJson(s) == EscapeNewlines(DropTrailingCommas(s, 1))

(* the first position satisfying P, 0 when there is none: re.search scans  *)
(* from the left                                                           *)
FirstIn(S) == IF S = {} THEN 0 ELSE CHOOSE i \in S : \A j \in S : i <= j

NoMatch == [found |-> FALSE, group |-> <<>>]
Match(group) == [found |-> TRUE, group |-> group]

(* lines 138, 148, 174: the quoted key, optional whitespace, a colon,      *)
(* optional whitespace, then a quoted string                               *)
QuotedAfterColon(s, i, key) ==
    LET c == SkipWs(s, i + 1)
        q == SkipWs(s, c + 1)
    IN  IF s[i] = key /\ c <= Len(s) /\ s[c] = ":" /\ q <= Len(s) /\ s[q] \in StrToks
        THEN q ELSE 0
KeyValueMatch(s, key) ==
    LET i == FirstIn({j \in 1..Len(s) : QuotedAfterColon(s, j, key) # 0})
    IN  IF i = 0 THEN NoMatch ELSE Match(<<KeyName(s[QuotedAfterColon(s, i, key)])>>)

(* lines 143, 152, 178: the quoted key, then the next quoted string that   *)
(* comes before any closing brace                                          *)
QuotedBeforeBrace(s, i) ==
    FirstIn({q \in i + 1..Len(s) :
                s[q] \in StrToks /\ \A m \in i + 1..q - 1 : s[m] # "}"})
KeyAltMatch(s, key) ==
    LET i == FirstIn({j \in 1..Len(s) : s[j] = key /\ QuotedBeforeBrace(s, j) # 0})
    IN  IF i = 0 THEN NoMatch ELSE Match(<<KeyName(s[QuotedBeforeBrace(s, i)])>>)
StringField(s, key) ==
    IF KeyValueMatch(s, key).found THEN KeyValueMatch(s, key) ELSE KeyAltMatch(s, key)

(* re.findall of digit runs: each maximal run of digits is one number *)
RECURSIVE FindNumbers(_, _)
FindNumbers(s, i) ==
    IF i > Len(s) THEN <<>>
    ELSE IF s[i] = "1"
         THEN <<NumVal(DigitsEnd(s, i) - i)>> \o FindNumbers(s, DigitsEnd(s, i))
         ELSE FindNumbers(s, i + 1)

(* line 157: the quoted key relevant_pages, a colon, an opening bracket,   *)
(* and everything up to the first closing bracket                          *)
BracketAfterColon(s, i) ==
    LET c == SkipWs(s, i + 1)
        b == SkipWs(s, c + 1)
    IN  IF s[i] = "Kpages" /\ c <= Len(s) /\ s[c] = ":" /\ b <= Len(s) /\ s[b] = "["
           /\ \E e \in b + 1..Len(s) : s[e] = "]"
        THEN b ELSE 0
PagesMatch(s) ==
    LET i == FirstIn({j \in 1..Len(s) : BracketAfterColon(s, j) # 0})
        b == BracketAfterColon(s, i)
        e == FirstIn({m \in b + 1..Len(s) : s[m] = "]"})
    IN  IF i = 0 THEN NoMatch ELSE Match(SubSeq(s, b + 1, e - 1))

(* line 168: a bracketed, non-empty run of digits, commas and whitespace *)
DigitList(s, b, e) ==
    /\ s[b] = "["
    /\ s[e] = "]"
    /\ e > b + 1
    /\ \A m \in b + 1..e - 1 : s[m] \in {"1", ","} \cup WsToks
PagesAltMatch(s) ==
    LET b == FirstIn({j \in 1..Len(s) : \E e \in j + 1..Len(s) : DigitList(s, j, e)})
        e == FirstIn({m \in b + 1..Len(s) : DigitList(s, b, m)})
    IN  IF b = 0 THEN NoMatch ELSE Match(SubSeq(s, b + 1, e - 1))

(* lines 156-171 *)
PagesField(s) ==
    LET m == PagesMatch(s)
        pages_str == <<"[">> \o m.group \o <<"]">>
        a == PagesAltMatch(s)
    IN  IF m.found
        THEN [found |-> TRUE,
              val |-> IF JsonLoads(pages_str).ok THEN JsonLoads(pages_str).val
                      ELSE ArrVal(FindNumbers(m.group, 1))]
        ELSE IF a.found THEN [found |-> TRUE, val |-> ArrVal(FindNumbers(a.group, 1))]
        ELSE [found |-> FALSE, val |-> ArrVal(<<>>)]

StructuredAnswer(step, summary, pages, final) ==
    ObjVal(<<Pair("step_by_step_analysis", step), Pair("reasoning_summary", summary),
             Pair("relevant_pages", pages), Pair("final_answer", final)>>)

(* lines 133-201: regex recovery, then the defaults *)
RegexRecovery(processed_text) ==
    LET step == StringField(processed_text, "Kstep")
        summary == StringField(processed_text, "Ksum")
        pages == PagesField(processed_text)
        final == StringField(processed_text, "Kfinal")
    IN  IF step.found \/ summary.found \/ pages.found \/ final.found
        THEN StructuredAnswer(
                IF step.found THEN StrVal(step.group) ELSE StrVal(<<"no_analysis">>),
                IF summary.found THEN StrVal(summary.group) ELSE StrVal(<<"no_summary">>),
                pages.val,
                IF final.found THEN StrVal(final.group) ELSE StrVal(processed_text))
        ELSE StructuredAnswer(
                StrVal(<<"unparseable">> \o Take(processed_text, 200) \o <<"...">>),
                StrVal(<<"format_error">>),
                ArrVal(<<>>),
                StrVal(processed_text))

(* lines 108-131: the span from the first opening to the last closing brace *)
BraceSpan(s) ==
    LET start_idx == FindFirst(s, "{")
        end_idx == FindLast(s, "}")
    IN  IF start_idx # 0 /\ end_idx # 0 /\ start_idx < end_idx
        THEN SubSeq(s, start_idx, end_idx) ELSE <<>>

(* StructuredOutputParser.parse: what it returns, and whether it raised *)
Returns(val) == [raised |-> FALSE, val |-> val]
Parse(text) ==
    LET processed_text == ProcessedText(text)
        json_candidate == BraceSpan(processed_text)
    IN  IF JsonLoads(processed_text).ok THEN Returns(JsonLoads(processed_text).val)
        ELSE IF json_candidate # <<>> /\ JsonLoads(json_candidate).ok
        THEN Returns(JsonLoads(json_candidate).val)
        ELSE IF json_candidate # <<>> /\ JsonLoads(CleanedJson(json_candidate)).ok
        THEN Returns(JsonLoads(CleanedJson(json_candidate)).val)
        ELSE Returns(RegexRecovery(processed_text))

(* QwenLLMClient.parse_structured_response: only the brace span is tried *)
ParseStructuredResponse(response_text) ==
    LET json_str == BraceSpan(response_text)
    IN  IF json_str = <<>>
        THEN Returns(StructuredAnswer(StrVal(<<"no_format">>), StrVal(<<"format_error">>),
                                      ArrVal(<<>>), StrVal(response_text)))
        ELSE IF JsonLoads(json_str).ok THEN Returns(JsonLoads(json_str).val)
        ELSE Returns(StructuredAnswer(StrVal(<<"json_error">>), StrVal(<<"no_parse">>),
                                      ArrVal(<<>>), StrVal(response_text)))

(* ------------- AnswerTypeClassifier.determine_answer_type -------------- *)
(* A question is a sequence of characters; a character is named by its     *)
(* code point, "A" is an upper-case and "a" a lower-case letter.  The four  *)
(* keyword lists are those of the source, in their order.                  *)
number_keywords ==
    <<<<"u591a", "u5c11">>, <<"u91d1", "u989d">>, <<"u6570", "u503c">>,
      <<"u6570", "u91cf">>, <<"u6bd4", "u4f8b">>,
      <<"u767e", "u5206", "u6bd4">>, <<"u7387">>, <<"u6536", "u5165">>,
      <<"u5229", "u6da6">>, <<"u8d44", "u4ea7">>, <<"u8d1f", "u503a">>,
      <<"u9500", "u552e", "u989d">>, <<"u6210", "u672c">>,
      <<"u8d39", "u7528">>, <<"u6295", "u8d44">>, <<"u5e02", "u503c">>,
      <<"u80a1", "u4ef7">>, <<"u6536", "u76ca">>, <<"u4ea7", "u503c">>,
      <<"u4ea7", "u91cf">>, <<"u9500", "u91cf">>>>
name_keywords ==
    <<<<"u8c01">>, <<"u54ea", "u4e2a">>, <<"u54ea", "u4f4d">>,
      <<"u4ec0", "u4e48", "u4eba">>, <<"u59d3", "u540d">>,
      <<"u540d", "u5b57">>, <<"u53eb", "u4ec0", "u4e48">>,
      <<"u79f0", "u8c13">>, <<"u804c", "u52a1">>, <<"u804c", "u4f4d">>,
      <<"u89d2", "u8272">>>>
boolean_keywords ==
    <<<<"u662f", "u5426">>, <<"u6709", "u6ca1", "u6709">>,
      <<"u662f", "u5426", "u5b58", "u5728">>, <<"u80fd", "u5426">>,
      <<"u53ef", "u5426">>, <<"u662f", "u4e0d", "u662f">>,
      <<"u6709", "u6ca1", "u6709">>, <<"u662f", "u5426", "u5177", "u5907">>,
      <<"u662f", "u5426", "u62e5", "u6709">>>>
names_keywords ==
    <<<<"u54ea", "u4e9b">>, <<"u54ea", "u4e9b", "u4eba">>,
      <<"u51e0", "u4e2a", "u4eba">>, <<"u90fd", "u6709", "u8c01">>,
      <<"u90fd", "u5305", "u62ec">>, <<"u5206", "u522b">>,
      <<"u5217", "u8868">>, <<"u6e05", "u5355">>, <<"u6240", "u6709">>,
      <<"u591a", "u4e2a">>>>

(* str.lower() *)
LowerChar(c) == IF c = "A" THEN "a" ELSE c
Lower(text) == [i \in 1..Len(text) |-> LowerChar(text[i])]

(* keyword in text: the text is scanned from the left for the keyword *)
RECURSIVE FoundFrom(_, _, _)
FoundFrom(keyword, text, i) ==
    IF i + Len(keyword) - 1 > Len(text) THEN FALSE
    ELSE IF SubSeq(text, i, i + Len(keyword) - 1) = keyword THEN TRUE
    ELSE FoundFrom(keyword, text, i + 1)
(* any(keyword in text for keyword in keywords) *)
RECURSIVE AnyKeyword(_, _)
AnyKeyword(keywords, text) ==
    IF keywords = <<>> THEN FALSE
    ELSE IF FoundFrom(Head(keywords), text, 1) THEN TRUE
    ELSE AnyKeyword(Tail(keywords), text)

DetermineAnswerTypeNameFirst(question) ==
    LET question_lower == Lower(question)
    IN  IF AnyKeyword(name_keywords, question_lower) THEN "name"
        ELSE IF AnyKeyword(number_keywords, question_lower) THEN "number"
        ELSE IF AnyKeyword(boolean_keywords, question_lower) THEN "boolean"
        ELSE IF AnyKeyword(names_keywords, question_lower) THEN "names"
        ELSE "string"
DetermineAnswerType(question) ==
    LET question_lower == Lower(question)
    IN  IF AnyKeyword(number_keywords, question_lower) THEN "number"
        ELSE IF AnyKeyword(name_keywords, question_lower) THEN "name"
        ELSE IF AnyKeyword(boolean_keywords, question_lower) THEN "boolean"
        ELSE IF AnyKeyword(names_keywords, question_lower) THEN "names"
        ELSE "string"


(* ----------------- LangChainEnhancedKnowledgeBase.ask ------------------ *)
(* dict.get(key, default) on a parsed value; the later pair of a key wins *)
Get(val, key, default) ==
    LET S == {i \in 1..Len(val.v) : val.v[i].key = key}
    IN  IF S = {} THEN default ELSE val.v[CHOOSE i \in S : \A j \in S : j <= i].val
NotFound == StrVal(<<"not_found">>)

(* result.get(key, default) on one search result *)
GetKey(result, key, default) ==
    IF key \in DOMAIN result THEN result[key] ELSE default

(* a plausible slip: the score always read from hybrid_score *)
SourcesFusedScore(search_results, use_reranker) ==
    [i \in 1..Len(search_results) |->
        LET result == search_results[i]
        IN  [id |-> result.id,
             content |-> <<result.content, "...">>,
             score |-> GetKey(result, "hybrid_score", Zero),
             original_score |-> GetKey(result, "hybrid_score", Zero),
             rerank_position |-> GetKey(result, "rerank_position", None),
             original_position |-> GetKey(result, "original_position", None),
             use_reranker |-> use_reranker]]

(* ask, lines 157-169: one source per search result.  The content is cut    *)
(* to its first 200 characters and followed by "..."; a position the result *)
(* does not carry reads as None.                                            *)
Sources(search_results, use_reranker) ==
    [i \in 1..Len(search_results) |->
        LET result == search_results[i]
        IN  [id |-> result.id,
             content |-> <<result.content, "...">>,
             score |-> GetKey(result, "rerank_score",
                              GetKey(result, "hybrid_score", Zero)),
             original_score |-> GetKey(result, "hybrid_score", Zero),
             rerank_position |-> GetKey(result, "rerank_position", None),
             original_position |-> GetKey(result, "original_position", None),
             use_reranker |-> use_reranker]]

AskResult(raised, answer, results, sources, answer_type, searches, llm_calls) ==
    [raised |-> raised, answer |-> answer, search_results |-> results,
     sources |-> sources, answer_type |-> answer_type, searches |-> searches,
     llm_calls |-> llm_calls]
AskRaises(searches, llm_calls) ==
    AskResult(TRUE, StrVal(<<>>), <<>>, <<>>, "error", searches, llm_calls)

(* the wrapper's hybrid_search with the arguments ask and RAGChain pass *)
SearchOnce(s, top_k, use_reranker) ==
    HybridSearch(s.vector_resp, s.keyword_resp, top_k, Rat(7, 10), use_reranker, s.rr)

(* structured_response.get raises on a value that is no dict *)
Structured(reply) == ~reply.raised /\ Parse(reply.text).val.t = "obj"
FinalAnswer(reply) == Get(Parse(reply.text).val, "final_answer", NotFound)
(* a model call that was made: 1; the prompt raised before the call: 0 *)
Invocations(reply) == IF reply.invoked THEN 1 ELSE 0

(* a plausible slip: no basic chat, a failed structured answer is raised *)
RAGChainNoFallback(question, top_k, use_reranker, s, structured_reply, basic_reply, searches, llm_calls) ==
    LET search_results == SearchOnce(s, top_k, use_reranker)
    IN  IF search_results.raised THEN AskRaises(searches + 1, llm_calls)
        ELSE IF Structured(structured_reply)
        THEN AskResult(FALSE, FinalAnswer(structured_reply), search_results.results,
                       Sources(search_results.results, use_reranker),
                       DetermineAnswerType(question), searches + 1, llm_calls + 1)
        ELSE AskRaises(searches + 1, llm_calls + 1)

(* RAGChain.__call__, entered after `searches` searches and `llm_calls`    *)
(* model calls of the same request                                         *)
RAGChain(question, top_k, use_reranker, s, structured_reply, basic_reply, searches, llm_calls) ==
    LET search_results == SearchOnce(s, top_k, use_reranker)
        sources == Sources(search_results.results, use_reranker)
    IN  IF search_results.raised THEN AskRaises(searches + 1, llm_calls)
        ELSE IF Structured(structured_reply)
        THEN AskResult(FALSE, FinalAnswer(structured_reply), search_results.results,
                       sources, DetermineAnswerType(question), searches + 1,
                       llm_calls + 1)
        ELSE IF basic_reply.raised THEN AskRaises(searches + 1, llm_calls + 2)
        ELSE AskResult(FALSE, StrVal(basic_reply.text), search_results.results,
                       sources, "fallback", searches + 1, llm_calls + 2)

(* ask: the adaptive attempt (search s1, model reply l1) and, on any        *)
(* exception, the RAG chain (search s2, model replies l2 and l3)            *)
Ask(is_initialized, question, top_k, use_reranker, s1, l1, s2, l2, l3) ==
    LET search_results == SearchOnce(s1, top_k, use_reranker)
        searches == IF is_initialized THEN 1 ELSE 0
        llm_calls == IF is_initialized /\ ~search_results.raised
                     THEN Invocations(l1) ELSE 0
    IN  IF is_initialized /\ ~search_results.raised /\ Structured(l1)
        THEN AskResult(FALSE, FinalAnswer(l1), search_results.results,
                       Sources(search_results.results, use_reranker), "adaptive", 1, 1)
        ELSE RAGChain(question, top_k, use_reranker, s2, l2, l3, searches, llm_calls)

(* a plausible slip: the typed-prompt chat is tried before the adaptive one *)
KbAskStructuredFirst(is_initialized, question, top_k, use_reranker, s1, l1, l2, l3) ==
    LET search_results == SearchOnce(s1, top_k, use_reranker)
        sources == Sources(search_results.results, use_reranker)
        parsed_response == ParseStructuredResponse(l2.text).val
    IN  IF ~is_initialized THEN AskRaises(0, 0)
        ELSE IF search_results.raised THEN AskRaises(1, 0)
        ELSE IF ~l2.raised /\ parsed_response.t = "obj"
        THEN AskResult(FALSE, Get(parsed_response, "final_answer", NotFound),
                       search_results.results, sources,
                       DetermineAnswerType(question), 1, 1)
        ELSE IF ~l1.raised
        THEN AskResult(FALSE, StrVal(l1.text), search_results.results, sources,
                       "adaptive", 1, 2)
        ELSE IF l3.raised THEN AskRaises(1, Invocations(l1) + 2)
        ELSE AskResult(FALSE, StrVal(l3.text), search_results.results, sources,
                       "fallback", 1, Invocations(l1) + 2)

(* KnowledgeBase.ask: one search outside the try, then the adaptive, the   *)
(* structured and the basic answer, each tried when the one before raised. *)
(* The document analysis after the adaptive call (line 221) repeats, on    *)
(* the same context, the analysis the prompt generator has already made.   *)
KbAsk(is_initialized, question, top_k, use_reranker, s1, l1, l2, l3) ==
    LET search_results == SearchOnce(s1, top_k, use_reranker)
        sources == Sources(search_results.results, use_reranker)
        parsed_response == ParseStructuredResponse(l2.text).val
        calls == Invocations(l1)
    IN  IF ~is_initialized THEN AskRaises(0, 0)
        ELSE IF search_results.raised THEN AskRaises(1, 0)
        ELSE IF ~l1.raised
        THEN AskResult(FALSE, StrVal(l1.text), search_results.results, sources,
                       "adaptive", 1, calls)
        ELSE IF ~l2.raised /\ parsed_response.t = "obj"
        THEN AskResult(FALSE, Get(parsed_response, "final_answer", NotFound),
                       search_results.results, sources,
                       DetermineAnswerType(question), 1, calls + 1)
        ELSE IF l3.raised THEN AskRaises(1, calls + 2)
        ELSE AskResult(FALSE, StrVal(l3.text), search_results.results, sources,
                       "fallback", 1, calls + 2)

(* ----------------------- inputs of the environment --------------------- *)
HitScores == 1..MaxScore
TopKs == 1..MaxTopK
DefaultWeight == Rat(7, 10)
Weights == {DefaultWeight, Rat(1, 2)}

SeqsUpTo(S, n) == UNION {[1..k -> S] : k \in 0..n}

(* what one Elasticsearch query returns: at most `size` hits, ids distinct, *)
(* ordered by _score descending                                            *)
HitLists(size) ==
    {h \in SeqsUpTo({Hit(id, s) : id \in Ids, s \in HitScores}, Min(size, MaxHits)) :
        /\ \A i, j \in 1..Len(h) : i # j => h[i].id # h[j].id
        /\ \A i \in 1..Len(h) - 1 : ~RLess(h[i].score, h[i + 1].score)}

(* ids are opaque and only compared for equality: the dense hits are named *)
(* 1, 2, ... in their order, the sparse hits range over every id           *)
DenseLists(size) == {h \in HitLists(size) : \A i \in 1..Len(h) : h[i].id = i}

SearchError == [failed |-> TRUE, hits |-> <<>>]
SearchOk(h) == [failed |-> FALSE, hits |-> h]

RelScores == {0, MaxScore}
ApiItems(n) ==
    {[has_index |-> TRUE, index |-> i, has_score |-> TRUE, relevance_score |-> s] :
        i \in 0..n, s \in RelScores}
RespRaise == [kind |-> "raise", has_results |-> FALSE, results |-> <<>>]
RespStatus == [kind |-> "status", has_results |-> FALSE, results |-> <<>>]
RespNoResults == [kind |-> "ok", has_results |-> FALSE, results |-> <<>>]
RespResults(r) == [kind |-> "ok", has_results |-> TRUE, results |-> r]
(* the endpoint accepts the request and sends nothing back *)
RespNever == [kind |-> "never", has_results |-> FALSE, results |-> <<>>]
DegradedResponses == {RespRaise, RespStatus}
ApiResponses(n) ==
    DegradedResponses \cup {RespNoResults}
        \cup {RespResults(r) : r \in SeqsUpTo(ApiItems(n), MaxItems)}

NoReranker == [imported |-> FALSE, initialized |-> FALSE, resp |-> RespRaise]
UninitReranker == [imported |-> TRUE, initialized |-> FALSE, resp |-> RespRaise]
ReadyReranker(resp) == [imported |-> TRUE, initialized |-> TRUE, resp |-> resp]

(* ------------------------------- state --------------------------------- *)
VARIABLES hs_pc, hs_in, hs_pre, hs_out,
          rk_pc, rk_inst, rk_in, rk_out, rk_results,
          ps_pc, ps_text, ps_out,
          jina_reranker, instances, th_pc, th_self, th_ret,
          ask_pc, ask_in, ask_out,
          at_pc, at_question, at_out,
          kb, up

searchVars == <<hs_pc, hs_in, hs_pre, hs_out>>
rerankVars == <<rk_pc, rk_inst, rk_in, rk_out, rk_results>>
parseVars == <<ps_pc, ps_text, ps_out>>
initVars == <<jina_reranker, instances, th_pc, th_self, th_ret>>
askVars == <<ask_pc, ask_in, ask_out>>
typeVars == <<at_pc, at_question, at_out>>
kbVars == <<kb>>
upVars == <<up>>
vars == <<searchVars, rerankVars, parseVars, initVars, askVars, typeVars, kbVars, upVars>>

NoOutput == [raised |-> FALSE, reranked |-> FALSE, results |-> <<>>]
SearchInput(vr, kr, top_k, w, use, rr) ==
    [vector_resp |-> vr, keyword_resp |-> kr, top_k |-> top_k, vector_weight |-> w,
     use_reranker |-> use, rr |-> rr]
NoInput == SearchInput(SearchError, SearchError, 0, DefaultWeight, FALSE, NoReranker)

SearchIdle ==
    /\ hs_pc = "idle"
    /\ hs_in = NoInput
    /\ hs_pre = <<>>
    /\ hs_out = NoOutput

DoHybridSearch(vr, kr, top_k, w, use, rr) ==
    /\ UNCHANGED <<rerankVars, parseVars, initVars, askVars, typeVars, kbVars, upVars>>
    /\ hs_pc' = "done"
    /\ hs_in' = SearchInput(vr, kr, top_k, w, use, rr)
    /\ hs_pre' = IF vr.failed \/ kr.failed THEN <<>>
                 ELSE PreRerankResults(vr.hits, kr.hits, w)
    /\ hs_out' = HybridSearch(vr, kr, top_k, w, use, rr)

(* a search of the store fails: hybrid_search re-raises (lines 295-297);   *)
(* the keyword search is not reached when the vector search failed         *)
HybridSearchFails ==
    /\ hs_pc = "idle"
    /\ \E top_k \in TopKs, w \in Weights, use \in BOOLEAN :
         \E vr \in {SearchError} \cup {SearchOk(h) : h \in DenseLists(top_k * 2)} :
            DoHybridSearch(vr, SearchError, top_k, w, use, NoReranker)

(* no rerank: use_reranker false, reranker not importable or not initialized *)
HybridSearchPlain ==
    /\ hs_pc = "idle"
    /\ \E top_k \in TopKs, w \in Weights :
         \E vh \in DenseLists(top_k * 2), kh \in HitLists(top_k * 2) :
            \E c \in {<<FALSE, NoReranker>>, <<TRUE, NoReranker>>,
                      <<TRUE, UninitReranker>>} :
                DoHybridSearch(SearchOk(vh), SearchOk(kh), top_k, w, c[1], c[2])

(* use_reranker with an initialized remote reranker; the callers of        *)
(* hybrid_search never pass vector_weight, so the default applies          *)
HybridSearchReranked ==
    /\ hs_pc = "idle"
    /\ \E top_k \in TopKs :
         \E vh \in DenseLists(top_k * 2), kh \in HitLists(top_k * 2) :
            \E resp \in ApiResponses(Len(PreRerankResults(vh, kh, DefaultWeight))) :
                DoHybridSearch(SearchOk(vh), SearchOk(kh), top_k, DefaultWeight, TRUE,
                               ReadyReranker(resp))

(* hybrid_search in two steps around the remote call.  First step: both    *)
(* searches and the fusion are done and _jina_api_rerank has sent its       *)
(* request (bge_reranker.py line 173); the thread is inside requests.post,  *)
(* which was given no timeout argument and so waits for the reply without   *)
(* a limit.  Nothing is posted for an empty fused list (line 328).          *)
PostRerankRequest ==
    /\ hs_pc = "idle"
    /\ \E top_k \in TopKs :
         \E vh \in DenseLists(top_k * 2), kh \in HitLists(top_k * 2) :
            LET pre == PreRerankResults(vh, kh, DefaultWeight)
            IN  /\ pre # <<>>
                /\ \E resp \in ApiResponses(Len(pre)) \cup {RespNever} :
                     hs_in' = SearchInput(SearchOk(vh), SearchOk(kh), top_k,
                                          DefaultWeight, TRUE, ReadyReranker(resp))
                /\ hs_pre' = pre
    /\ hs_pc' = "waiting"
    /\ hs_out' = NoOutput
    /\ UNCHANGED <<rerankVars, parseVars, initVars, askVars, typeVars, kbVars, upVars>>

(* second step: requests.post returns or raises, and the rest of            *)
(* _jina_api_rerank, rerank_search_results and hybrid_search runs.  There   *)
(* is no step for an endpoint that stays silent.                            *)
RerankResponse ==
    /\ hs_pc = "waiting"
    /\ hs_in.rr.resp.kind # "never"
    /\ hs_out' = HybridSearch(hs_in.vector_resp, hs_in.keyword_resp, hs_in.top_k,
                              hs_in.vector_weight, hs_in.use_reranker, hs_in.rr)
    /\ hs_pc' = "done"
    /\ UNCHANGED <<hs_in, hs_pre, rerankVars, parseVars, initVars, askVars, typeVars, kbVars, upVars>>

(* ------------------- one reranker instance, called ---------------------- *)
Variants == {"cross_encoder", "jina_api", "llm", "jina_local"}
Providers == {"openai", "dashscope"}

NoInstance == [variant |-> "none", provider |-> "none", initialized |-> FALSE,
               requests |-> 0, last |-> "none"]
NoCall == [documents |-> <<>>, top_k |-> 0, resp |-> RespRaise]
NoResults == [raised |-> FALSE, results |-> <<>>, search_results |-> <<>>]

RerankIdle ==
    /\ rk_pc = "new"
    /\ rk_inst = NoInstance
    /\ rk_in = NoCall
    /\ rk_out = <<>>
    /\ rk_results = NoResults

(* the fused candidates handed to rerank_search_results *)
DocLists == {[i \in 1..n |-> Content(i)] : n \in 0..MaxDocs}
Candidate(i, n) ==
    [id |-> i, content |-> Content(i), metadata |-> Metadata(i),
     hybrid_score |-> RMul(Rat(n + 1 - i, 1), DefaultWeight),
     vector_score |-> Rat(n + 1 - i, 1), keyword_score |-> Zero]
Candidates(documents) == [i \in 1..Len(documents) |-> Candidate(i, Len(documents))]

ScoreVectors(n) == [1..n -> RelScores]
ModelResponses(n) ==
    {[kind |-> "raise", scores |-> <<>>]}
        \cup {[kind |-> "scores", scores |-> sc] : sc \in ScoreVectors(n)}
Rankings(n) ==
    SeqsUpTo({[has_score |-> TRUE, relevance_score |-> s] : s \in RelScores}
                \cup {[has_score |-> FALSE, relevance_score |-> 0]}, n)
LlmResponses(n) ==
    {[kind |-> "raise", rankings |-> <<>>], [kind |-> "unparsable", rankings |-> <<>>]}
        \cup {[kind |-> "content", rankings |-> r] : r \in Rankings(n)}
Responses(variant, n) ==
    CASE variant = "jina_api" -> ApiResponses(n)
      [] variant = "llm" -> LlmResponses(n)
      [] OTHER -> ModelResponses(n)

(* UniversalBGEReranker.__init__ / JinaReranker.initialize: the setup      *)
(* either sets _initialized or leaves it False                             *)
Construct ==
    /\ rk_pc = "new"
    /\ \E variant \in Variants, ok \in BOOLEAN :
        \E provider \in IF variant = "llm" THEN Providers ELSE {"none"} :
            rk_inst' = [variant |-> variant, provider |-> provider,
                        initialized |-> ok, requests |-> 0, last |-> "none"]
    /\ rk_pc' = "ready"
    /\ UNCHANGED <<rk_in, rk_out, rk_results, searchVars, parseVars, initVars, askVars, typeVars, kbVars, upVars>>

(* whether the call reaches the model / the endpoint *)
SendsRequest(inst, documents) == inst.initialized /\ documents # <<>>

(* a 200 reply whose body has no results list, or an index past the documents *)
Malformed(resp, n) ==
    /\ resp.kind = "ok"
    /\ \/ ~resp.has_results
       \/ \E i \in 1..Len(resp.results) :
            resp.results[i].has_index /\ resp.results[i].index >= n

(* how the previous call ended; recorded for the properties only *)
Outcome(inst, documents, resp) ==
    IF ~SendsRequest(inst, documents) THEN "none"
    ELSE IF inst.variant = "jina_api" /\ Malformed(resp, Len(documents))
         THEN "malformed"
         ELSE resp.kind

RerankOf(inst, documents, top_k, resp) ==
    IF inst.variant = "jina_local"
    THEN JinaLocalRerank(inst.initialized, documents, top_k, resp)
    ELSE Rerank(inst.variant, inst.initialized, inst.provider, documents, top_k, resp)

(* JinaReranker.rerank_search_results reads 'score' where the universal    *)
(* reranker reads 'rerank_score'                                           *)
WithRerankScore(reranked) ==
    [i \in 1..Len(reranked) |->
        [index |-> reranked[i].index, rerank_score |-> reranked[i].score]]

ResultsOf(inst, documents, reranked) ==
    IF documents = <<>> THEN NoResults
    ELSE AssembleReranked(Candidates(documents),
            IF inst.variant = "jina_local" THEN WithRerankScore(reranked)
            ELSE reranked)

(* rerank_search_results(query, search_results, top_k) on the instance *)
Call ==
    /\ rk_pc = "ready"
    /\ rk_inst.requests < MaxCalls
    /\ \E documents \in DocLists, top_k \in TopKs :
        \E resp \in Responses(rk_inst.variant, Len(documents)) :
            LET reranked == RerankOf(rk_inst, documents, top_k, resp)
            IN  /\ rk_in' = [documents |-> documents, top_k |-> top_k, resp |-> resp]
                /\ rk_out' = reranked
                /\ rk_results' = ResultsOf(rk_inst, documents, reranked)
                /\ rk_inst' = [rk_inst EXCEPT
                        !.requests = IF SendsRequest(rk_inst, documents)
                                     THEN @ + 1 ELSE @,
                        !.last = Outcome(rk_inst, documents, resp)]
    /\ rk_pc' = "returned"
    /\ UNCHANGED <<searchVars, parseVars, initVars, askVars, typeVars, kbVars, upVars>>

(* the call returns; the instance stays *)
Return ==
    /\ rk_pc = "returned"
    /\ rk_pc' = "ready"
    /\ rk_in' = NoCall
    /\ rk_out' = <<>>
    /\ rk_results' = NoResults
    /\ UNCHANGED <<rk_inst, searchVars, parseVars, initVars, askVars, typeVars, kbVars, upVars>>

(* ------------------------- the parsers, called -------------------------- *)
ShortToks == {"{", "}", "[", "]", ",", ":", "Kfinal", "Kpages", "S", "1", "w",
              "sp", "nl", "fence_json", "fence"}
FullObject ==
    <<"{", "Kstep", ":", "S", ",", "Ksum", ":", "S", ",",
      "Kpages", ":", "[", "1", "]", ",", "Kfinal", ":", "S", "}">>
Samples ==
    {FullObject,
     <<"fence_json", "nl">> \o FullObject \o <<"nl", "fence">>,
     <<"w", "sp", "fence_json", "nl", "{", "Kfinal", ":", "S", "}", "nl", "fence">>,
     <<"{", "Kfinal", ":", "S", "}">>,
     <<"{", "Kstep", ":", "S", ",", "Kfinal", ":">>,
     <<"{", "Kfinal", ":", "S", ",", "nl", "}">>,
     <<"w", "sp", "{", "Ksum", ":", "S", "}", "sp", "w">>,
     <<"Kpages", ":", "[", "1", ",", "w", "]">>,
     <<"w", "[", "1", ",", "1", "1", "]">>,
     <<"sp", "Kfinal", "w", "S", "nl">>,
     <<"{", "Kfinal", ":", "Sf", "}">>,
     <<"w", "nl", "Sf", "nl", "{", "Kfinal", ":", "S", "nl", "fence">>}

(* the canonical JSON text of a value: json.dumps with its default          *)
(* separators, a comma and a space between items, a colon and a space       *)
(* after a key                                                              *)
LiteralOf(content) == CHOOSE t \in StrToks : <<KeyName(t)>> = content
Digits(n) == [i \in 1..n |-> "1"]
RECURSIVE Serialize(_), SerializeItems(_, _)
Serialize(val) ==
    CASE val.t = "str" -> <<LiteralOf(val.v)>>
      [] val.t = "num" -> Digits(val.v)
      [] val.t = "arr" -> <<"[">> \o SerializeItems(val.v, FALSE) \o <<"]">>
      [] val.t = "obj" -> <<"{">> \o SerializeItems(val.v, TRUE) \o <<"}">>
SerializeItems(items, keyed) ==
    IF items = <<>> THEN <<>>
    ELSE LET item == IF keyed
                     THEN <<LiteralOf(<<Head(items).key>>), ":", "sp">>
                              \o Serialize(Head(items).val)
                     ELSE Serialize(Head(items))
         IN  IF Len(items) = 1 THEN item
             ELSE item \o <<",", "sp">> \o SerializeItems(Tail(items), keyed)

StringValues == {StrVal(<<"x">>), StrVal(<<"fence_json">>)}
PageLists == {ArrVal([i \in 1..n |-> NumVal(1)]) : n \in 0..MaxPages}
FinalAnswers == StringValues \cup {NumVal(1), ArrVal(<<StrVal(<<"x">>)>>)}
Answers ==
    {StructuredAnswer(step, summary, pages, final) :
        step \in StringValues, summary \in StringValues,
        pages \in PageLists, final \in FinalAnswers}
Serialized == {Serialize(x) : x \in Answers}
Texts == SeqsUpTo(ShortToks, MaxText) \cup Samples \cup Serialized

ParseCall(fn, text) == [fn |-> fn, text |-> text]
NoParseCall == ParseCall("none", <<>>)
NoParseOutput == Returns(StrVal(<<>>))
ParseIdle ==
    /\ ps_pc = "idle"
    /\ ps_text = NoParseCall
    /\ ps_out = NoParseOutput

CallParse ==
    /\ ps_pc = "idle"
    /\ \E text \in Texts :
        /\ ps_text' = ParseCall("parse", text)
        /\ ps_out' = Parse(text)
    /\ ps_pc' = "done"
    /\ UNCHANGED <<searchVars, rerankVars, initVars, askVars, typeVars, kbVars, upVars>>

CallParseStructuredResponse ==
    /\ ps_pc = "idle"
    /\ \E response_text \in Texts :
        /\ ps_text' = ParseCall("parse_structured_response", response_text)
        /\ ps_out' = ParseStructuredResponse(response_text)
    /\ ps_pc' = "done"
    /\ UNCHANGED <<searchVars, rerankVars, initVars, askVars, typeVars, kbVars, upVars>>

(* ------------- get_jina_reranker, called by concurrent requests -------- *)
(* The global _jina_reranker and the JinaReranker objects are shared; each *)
(* thread runs get_jina_reranker statement by statement.  An object is     *)
(* named after the thread that constructed it.                             *)
Threads == 1..NumThreads
NotConstructed ==
    [constructed |-> FALSE, initialized |-> FALSE, model_name |-> "none",
     started |-> 0, finished |-> 0]
(* JinaReranker.__init__ *)
NewJinaReranker ==
    [constructed |-> TRUE, initialized |-> FALSE, model_name |-> "jina",
     started |-> 0, finished |-> 0]
LoadOutcomes == {"loaded", "import_error", "backup_loaded", "backup_failed"}
(* JinaReranker.initialize, from its start to the assignment of _initialized *)
Initialized(r, outcome) ==
    [r EXCEPT !.initialized = outcome \in {"loaded", "backup_loaded"},
              !.model_name = IF outcome = "backup_loaded" THEN "backup" ELSE @,
              !.finished = @ + 1]
StateOf(r) ==
    IF r.started > r.finished THEN "Initializing"
    ELSE IF r.finished = 0 THEN "Uninitialized"
    ELSE IF r.initialized THEN "Ready"
    ELSE "PermanentlyDegraded"

InitIdle ==
    /\ jina_reranker = None
    /\ instances = [t \in Threads |-> NotConstructed]
    /\ th_pc = [t \in Threads |-> "idle"]
    /\ th_self = [t \in Threads |-> None]
    /\ th_ret = [t \in Threads |-> None]

(* a request reaches the call of get_jina_reranker *)
Enter(t) ==
    /\ th_pc[t] = "idle"
    /\ th_pc' = [th_pc EXCEPT ![t] = "check"]
    /\ UNCHANGED <<jina_reranker, instances, th_self, th_ret>>
    /\ UNCHANGED <<searchVars, rerankVars, parseVars, askVars, typeVars, kbVars, upVars>>

(* line 185: if _jina_reranker is None *)
Check(t) ==
    /\ th_pc[t] = "check"
    /\ th_pc' = [th_pc EXCEPT ![t] = IF jina_reranker = None THEN "construct" ELSE "return"]
    /\ UNCHANGED <<jina_reranker, instances, th_self, th_ret>>
    /\ UNCHANGED <<searchVars, rerankVars, parseVars, askVars, typeVars, kbVars, upVars>>

(* line 186: _jina_reranker = JinaReranker(model_name) *)
Assign(t) ==
    /\ th_pc[t] = "construct"
    /\ instances' = [instances EXCEPT ![t] = NewJinaReranker]
    /\ jina_reranker' = t
    /\ th_pc' = [th_pc EXCEPT ![t] = "call_initialize"]
    /\ UNCHANGED <<th_self, th_ret>>
    /\ UNCHANGED <<searchVars, rerankVars, parseVars, askVars, typeVars, kbVars, upVars>>

(* line 187: _jina_reranker.initialize() reads the global again and enters *)
(* initialize on whatever object it names now                              *)
StartInitialize(t) ==
    /\ th_pc[t] = "call_initialize"
    /\ th_self' = [th_self EXCEPT ![t] = jina_reranker]
    /\ instances' = [instances EXCEPT ![jina_reranker].started = @ + 1]
    /\ th_pc' = [th_pc EXCEPT ![t] = "initialize"]
    /\ UNCHANGED <<jina_reranker, th_ret>>
    /\ UNCHANGED <<searchVars, rerankVars, parseVars, askVars, typeVars, kbVars, upVars>>

FinishInitialize(t) ==
    /\ th_pc[t] = "initialize"
    /\ \E outcome \in LoadOutcomes :
        instances' = [instances EXCEPT ![th_self[t]] = Initialized(@, outcome)]
    /\ th_pc' = [th_pc EXCEPT ![t] = "return"]
    /\ UNCHANGED <<jina_reranker, th_self, th_ret>>
    /\ UNCHANGED <<searchVars, rerankVars, parseVars, askVars, typeVars, kbVars, upVars>>

(* line 188: return _jina_reranker *)
ReturnInstance(t) ==
    /\ th_pc[t] = "return"
    /\ th_ret' = [th_ret EXCEPT ![t] = jina_reranker]
    /\ th_pc' = [th_pc EXCEPT ![t] = "done"]
    /\ UNCHANGED <<jina_reranker, instances, th_self>>
    /\ UNCHANGED <<searchVars, rerankVars, parseVars, askVars, typeVars, kbVars, upVars>>

(* the request ends; the thread serves the next one *)
Leave(t) ==
    /\ th_pc[t] = "done"
    /\ th_pc' = [th_pc EXCEPT ![t] = "idle"]
    /\ th_self' = [th_self EXCEPT ![t] = None]
    /\ th_ret' = [th_ret EXCEPT ![t] = None]
    /\ UNCHANGED <<jina_reranker, instances>>
    /\ UNCHANGED <<searchVars, rerankVars, parseVars, askVars, typeVars, kbVars, upVars>>

(* --------------------------- ask, called ------------------------------- *)
AskHits == <<Hit(1, MaxScore), Hit(2, 1)>>
AskRerankers ==
    {NoReranker, ReadyReranker(RespRaise), ReadyReranker(RespNoResults),
     ReadyReranker(RespResults(
        <<[has_index |-> TRUE, index |-> 1, has_score |-> TRUE, relevance_score |-> MaxScore],
          [has_index |-> TRUE, index |-> 0, has_score |-> TRUE, relevance_score |-> 0]>>))}
AskSearches ==
    {[vector_resp |-> SearchError, keyword_resp |-> SearchError, rr |-> NoReranker],
     [vector_resp |-> SearchOk(AskHits), keyword_resp |-> SearchError, rr |-> NoReranker],
     [vector_resp |-> SearchOk(<<>>), keyword_resp |-> SearchOk(<<>>), rr |-> NoReranker]}
        \cup {[vector_resp |-> SearchOk(AskHits), keyword_resp |-> SearchOk(<<Hit(2, 1)>>),
               rr |-> rr] : rr \in AskRerankers}
LlmRaises == [raised |-> TRUE, text |-> <<>>, invoked |-> TRUE]
LlmSays(text) == [raised |-> FALSE, text |-> text, invoked |-> TRUE]
(* generate_context_aware_prompt raised: the model was not invoked *)
PromptRaises == [raised |-> TRUE, text |-> <<>>, invoked |-> FALSE]
LlmReplies == {LlmRaises, LlmSays(FullObject), LlmSays(<<"w">>), LlmSays(<<"[", "]">>)}
AdaptiveReplies == LlmReplies \cup {PromptRaises}
BasicReplies == {LlmRaises, LlmSays(<<"w">>)}
AskQuestions == {<<"u8c01">>, <<"u7387">>, <<"x">>}

AskInput(is_initialized, question, top_k, use, s1, l1, s2, l2, l3) ==
    [is_initialized |-> is_initialized, question |-> question, top_k |-> top_k,
     use_reranker |-> use, s1 |-> s1, adaptive_reply |-> l1, s2 |-> s2,
     structured_reply |-> l2, basic_reply |-> l3]
NoSearch == [vector_resp |-> SearchError, keyword_resp |-> SearchError, rr |-> NoReranker]
NoAsk == AskInput(FALSE, <<>>, 0, FALSE, NoSearch, LlmRaises, NoSearch, LlmRaises, LlmRaises)
NoAnswer == AskResult(FALSE, StrVal(<<>>), <<>>, <<>>, "none", 0, 0)
AskIdle ==
    /\ ask_pc = "idle"
    /\ ask_in = NoAsk
    /\ ask_out = NoAnswer

AskRequest ==
    /\ ask_pc = "idle"
    /\ \E is_initialized \in BOOLEAN, top_k \in TopKs, use \in BOOLEAN,
          s1 \in AskSearches, s2 \in AskSearches, question \in AskQuestions,
          l1 \in AdaptiveReplies, l2 \in LlmReplies, l3 \in BasicReplies :
        /\ ask_in' = AskInput(is_initialized, question, top_k, use, s1, l1, s2, l2, l3)
        /\ ask_out' = Ask(is_initialized, question, top_k, use, s1, l1, s2, l2, l3)
    /\ ask_pc' = "done"
    /\ UNCHANGED <<searchVars, rerankVars, parseVars, initVars, typeVars, kbVars, upVars>>

KbAskRequest ==
    /\ ask_pc = "idle"
    /\ \E is_initialized \in BOOLEAN, top_k \in TopKs, use \in BOOLEAN,
          s1 \in AskSearches, question \in AskQuestions,
          l1 \in AdaptiveReplies, l2 \in LlmReplies, l3 \in BasicReplies :
        /\ ask_in' = AskInput(is_initialized, question, top_k, use, s1, l1, s1, l2, l3)
        /\ ask_out' = KbAsk(is_initialized, question, top_k, use, s1, l1, l2, l3)
    /\ ask_pc' = "kb_done"
    /\ UNCHANGED <<searchVars, rerankVars, parseVars, initVars, typeVars, kbVars, upVars>>

(* ----------------------- the classifier, called ------------------------ *)
QuestionChars ==
    {"u7387", "u591a", "u5c11", "u8c01", "u54ea", "u4e2a", "u4e9b", "u662f", "u5426",
     "u90fd", "u6709", "A", "x"}
Questions == SeqsUpTo(QuestionChars, MaxQuestion)
TypeIdle ==
    /\ at_pc = "idle"
    /\ at_question = <<>>
    /\ at_out = "none"

Classify ==
    /\ at_pc = "idle"
    /\ \E question \in Questions :
        /\ at_question' = question
        /\ at_out' = DetermineAnswerType(question)
    /\ at_pc' = "done"
    /\ UNCHANGED <<searchVars, rerankVars, parseVars, initVars, askVars, kbVars, upVars>>

(* ------------------------- KnowledgeBase, used -------------------------- *)
(* One KnowledgeBase object and what it has done to the store and the       *)
(* embedding service: documents indexed, searches sent, texts embedded, and *)
(* how many calls ended with the not-initialized error.                     *)
NewKnowledgeBase ==
    [pc |-> "idle", is_initialized |-> FALSE, todo |-> 0, indexed |-> 0,
     queries |-> 0, embeds |-> 0, refused |-> 0, ops |-> 0]
KbIdle == kb = NewKnowledgeBase

(* initialize: create_index, then is_initialized = True; False is returned  *)
(* and nothing is assigned when create_index raises                         *)
Initialize(k, create_ok) ==
    IF create_ok THEN [k EXCEPT !.is_initialized = TRUE] ELSE k

(* add_documents up to its loop: initialize when needed, raise when it fails *)
AddDocumentsEnter(k, n, create_ok) ==
    IF ~k.is_initialized /\ ~create_ok THEN [k EXCEPT !.refused = @ + 1]
    ELSE LET ready == IF k.is_initialized THEN k ELSE Initialize(k, create_ok)
         IN  [ready EXCEPT !.todo = n, !.pc = IF n = 0 THEN "idle" ELSE "adding"]

(* one turn of the loop: embed_query, then es_client.add_document; either   *)
(* may raise and end the call                                               *)
AddDocument(k, embed_ok, index_ok) ==
    IF ~embed_ok \/ ~index_ok
    THEN [k EXCEPT !.embeds = @ + 1, !.todo = 0, !.pc = "idle"]
    ELSE [k EXCEPT !.embeds = @ + 1, !.indexed = @ + 1, !.todo = @ - 1,
                   !.pc = IF k.todo = 1 THEN "idle" ELSE "adding"]

(* a plausible slip: search without its is_initialized test *)
SearchUnguarded(k, embed_ok) ==
    IF ~embed_ok THEN [k EXCEPT !.embeds = @ + 1]
    ELSE [k EXCEPT !.embeds = @ + 1, !.queries = @ + 1]
(* search: raise when not initialized, else embed the query and send the    *)
(* hybrid search to the store                                               *)
Search(k, embed_ok) ==
    IF ~k.is_initialized THEN [k EXCEPT !.refused = @ + 1]
    ELSE IF ~embed_ok THEN [k EXCEPT !.embeds = @ + 1]
    ELSE [k EXCEPT !.embeds = @ + 1, !.queries = @ + 1]

KbInitialize ==
    /\ kb.pc = "idle"
    /\ kb.ops < MaxOps
    /\ \E create_ok \in BOOLEAN :
        kb' = [Initialize(kb, create_ok) EXCEPT !.ops = @ + 1]
    /\ UNCHANGED <<searchVars, rerankVars, parseVars, initVars, askVars, typeVars, upVars>>

KbAddDocuments ==
    /\ kb.pc = "idle"
    /\ kb.ops < MaxOps
    /\ \E n \in 0..MaxBatch, create_ok \in BOOLEAN :
        kb' = [AddDocumentsEnter(kb, n, create_ok) EXCEPT !.ops = @ + 1]
    /\ UNCHANGED <<searchVars, rerankVars, parseVars, initVars, askVars, typeVars, upVars>>

KbAddDocument ==
    /\ kb.pc = "adding"
    /\ \E embed_ok \in BOOLEAN, index_ok \in BOOLEAN :
        kb' = AddDocument(kb, embed_ok, index_ok)
    /\ UNCHANGED <<searchVars, rerankVars, parseVars, initVars, askVars, typeVars, upVars>>

KbSearch ==
    /\ kb.pc = "idle"
    /\ kb.ops < MaxOps
    /\ \E embed_ok \in BOOLEAN :
        kb' = [Search(kb, embed_ok) EXCEPT !.ops = @ + 1]
    /\ UNCHANGED <<searchVars, rerankVars, parseVars, initVars, askVars, typeVars, upVars>>

(* ------------------------- upload_batch, called ------------------------- *)
(* One request to upload_batch.  A file either is saved and loaded into the *)
(* knowledge base, or writing it fails, or load_and_add_documents raises.   *)
FileNames == {"a", "b"}
FileOutcomes == {"ok", "save_fails", "load_fails"}
Uploads ==
    UNION {[1..n -> [filename : FileNames, outcome : FileOutcomes]] : n \in 1..MaxFiles}
NoResponse ==
    [status |-> "none", results |-> <<>>, total_uploaded |-> 0, success_count |-> 0,
     failure_count |-> 0]
NoUpload ==
    [pc |-> "idle", makedirs_ok |-> TRUE, files |-> <<>>, results |-> <<>>,
     response |-> NoResponse]
UpIdle == up = NoUpload

(* the entry appended for one file: by the try body or by its except branch *)
FileResult(file) ==
    IF file.outcome = "ok"
    THEN [filename |-> file.filename, status |-> "success", message |-> "added"]
    ELSE [filename |-> file.filename, status |-> "failed", message |-> file.outcome]

CountStatus(results, status) ==
    Cardinality({i \in 1..Len(results) : results[i].status = status})
(* a plausible slip: partial_success only when no file succeeded *)
BatchStatusNoneSucceeded(results) ==
    IF \A i \in 1..Len(results) : results[i].status = "failed"
    THEN "partial_success" ELSE "success"
BatchStatus(results) ==
    IF \E i \in 1..Len(results) : results[i].status = "failed"
    THEN "partial_success" ELSE "success"
BatchResponse(results) ==
    [status |-> BatchStatus(results), results |-> results,
     total_uploaded |-> Len(results),
     success_count |-> CountStatus(results, "success"),
     failure_count |-> CountStatus(results, "failed")]

(* the request arrives; os.makedirs runs before the loop and outside any try *)
UploadBatchStart ==
    /\ up.pc = "idle"
    /\ \E files \in Uploads, makedirs_ok \in BOOLEAN :
        up' = [NoUpload EXCEPT !.pc = IF makedirs_ok THEN "loop" ELSE "raised",
                               !.makedirs_ok = makedirs_ok, !.files = files]
    /\ UNCHANGED <<searchVars, rerankVars, parseVars, initVars, askVars, typeVars, kbVars>>

(* one turn of the loop over the files *)
UploadNextFile ==
    /\ up.pc = "loop"
    /\ Len(up.results) < Len(up.files)
    /\ up' = [up EXCEPT !.results = Append(@, FileResult(up.files[Len(up.results) + 1]))]
    /\ UNCHANGED <<searchVars, rerankVars, parseVars, initVars, askVars, typeVars, kbVars>>

(* after the loop: the response is built from results *)
UploadBatchReturn ==
    /\ up.pc = "loop"
    /\ Len(up.results) = Len(up.files)
    /\ up' = [up EXCEPT !.pc = "done", !.response = BatchResponse(up.results)]
    /\ UNCHANGED <<searchVars, rerankVars, parseVars, initVars, askVars, typeVars, kbVars>>

Idle ==
    /\ SearchIdle /\ RerankIdle /\ ParseIdle /\ InitIdle /\ AskIdle /\ TypeIdle
    /\ KbIdle /\ UpIdle

InitSearch == Idle
NextFusion == HybridSearchFails \/ HybridSearchPlain
SpecFusion == InitSearch /\ [][NextFusion]_vars
NextSearch == HybridSearchFails \/ HybridSearchPlain \/ HybridSearchReranked
SpecSearch == InitSearch /\ [][NextSearch]_vars
(* the reply of a responsive endpoint does arrive and the thread goes on;   *)
(* a silent endpoint sends none.  ReplyTaken is the RerankResponse step     *)
(* seen by its effect on hs_pc.                                             *)
ReplyTaken == hs_pc = "waiting" /\ hs_in.rr.resp.kind # "never" /\ hs_pc' = "done"
NextRemote == PostRerankRequest \/ RerankResponse
SpecRemote == InitSearch /\ [][NextRemote]_vars /\ WF_hs_pc(ReplyTaken)

InitRerank == Idle
NextRerank == Construct \/ Call \/ Return
SpecRerank == InitRerank /\ [][NextRerank]_vars

InitParse == Idle
NextParse == CallParse \/ CallParseStructuredResponse
SpecParse == InitParse /\ [][NextParse]_vars

InitThreads == Idle
NextThreads ==
    \E t \in Threads :
        \/ Enter(t)
        \/ Check(t)
        \/ Assign(t)
        \/ StartInitialize(t)
        \/ FinishInitialize(t)
        \/ ReturnInstance(t)
        \/ Leave(t)
SpecThreads == InitThreads /\ [][NextThreads]_vars

InitAsk == Idle
NextAsk == AskRequest \/ KbAskRequest
SpecAsk == InitAsk /\ [][NextAsk]_vars

InitClassify == Idle
NextClassify == Classify
SpecClassify == InitClassify /\ [][NextClassify]_vars

InitUpload == Idle
NextUpload == UploadBatchStart \/ UploadNextFile \/ UploadBatchReturn
SpecUpload == InitUpload /\ [][NextUpload]_vars

InitKb == Idle
NextKb == KbInitialize \/ KbAddDocuments \/ KbAddDocument \/ KbSearch
SpecKb == InitKb /\ [][NextKb]_vars

(* ------------------------------ properties ----------------------------- *)
InHits(hits, id) == \E i \in 1..Len(hits) : hits[i].id = id
ScoreIn(hits, id) ==
    IF InHits(hits, id) THEN hits[CHOOSE i \in 1..Len(hits) : hits[i].id = id].score
    ELSE Zero
Fused == hs_pc = "done" /\ ~hs_in.vector_resp.failed /\ ~hs_in.keyword_resp.failed

(* C1: every candidate of the fused list has                               *)
(* hybrid_score = vector_score*w + keyword_score*(1-w), an absent side     *)
(* scoring 0, and the fused list is sorted non-increasing by hybrid_score. *)
C1_FusedScoreAndOrder ==
    Fused =>
        LET dense == hs_in.vector_resp.hits
            sparse == hs_in.keyword_resp.hits
            w == hs_in.vector_weight
        IN  /\ \A i \in 1..Len(hs_pre) :
                LET c == hs_pre[i]
                IN  /\ InHits(dense, c.id) \/ InHits(sparse, c.id)
                    /\ REq(c.vector_score, ScoreIn(dense, c.id))
                    /\ REq(c.keyword_score, ScoreIn(sparse, c.id))
                    /\ c.hybrid_score.n * w.d * c.vector_score.d * c.keyword_score.d
                         = c.hybrid_score.d
                            * (c.vector_score.n * w.n * c.keyword_score.d
                                + c.keyword_score.n * (w.d - w.n) * c.vector_score.d)
            /\ \A i \in 1..Len(hs_pre) - 1 :
                ~RLess(hs_pre[i].hybrid_score, hs_pre[i + 1].hybrid_score)

C1_Witness ==
    /\ Fused
    /\ Len(hs_pre) >= 3
    /\ \E i, j, k \in 1..Len(hs_pre) :
        /\ InHits(hs_in.vector_resp.hits, hs_pre[i].id)
        /\ InHits(hs_in.keyword_resp.hits, hs_pre[i].id)
        /\ ~InHits(hs_in.keyword_resp.hits, hs_pre[j].id)
        /\ ~InHits(hs_in.vector_resp.hits, hs_pre[k].id)
        /\ RLess(hs_pre[k].hybrid_score, hs_pre[i].hybrid_score)
        /\ ~REq(hs_pre[j].vector_score, hs_pre[k].keyword_score)

(* C2: an id found by both searches yields exactly one fused candidate,    *)
(* with the dense score as vector_score and the sparse score as            *)
(* keyword_score; no id appears twice in the fused list.                   *)
C2_DedupById ==
    Fused =>
        LET dense == hs_in.vector_resp.hits
            sparse == hs_in.keyword_resp.hits
        IN  /\ \A id \in Ids :
                InHits(dense, id) /\ InHits(sparse, id) =>
                    /\ Cardinality({i \in 1..Len(hs_pre) : hs_pre[i].id = id}) = 1
                    /\ \A i \in 1..Len(hs_pre) :
                        hs_pre[i].id = id =>
                            /\ hs_pre[i].vector_score = ScoreIn(dense, id)
                            /\ hs_pre[i].keyword_score = ScoreIn(sparse, id)
            /\ \A i, j \in 1..Len(hs_pre) : i # j => hs_pre[i].id # hs_pre[j].id

C2_Witness ==
    /\ Fused
    /\ Len(hs_pre) >= 2
    /\ \E id \in Ids :
        /\ InHits(hs_in.vector_resp.hits, id)
        /\ InHits(hs_in.keyword_resp.hits, id)
        /\ ScoreIn(hs_in.vector_resp.hits, id) # ScoreIn(hs_in.keyword_resp.hits, id)


Returned == rk_pc = "returned"
(* degraded mode: not initialized, or the scoring call / request failed *)
Degraded ==
    \/ ~rk_inst.initialized
    \/ rk_in.resp.kind \in {"raise", "status"}

(* C4: in degraded mode every reranker variant returns exactly             *)
(* min(k, len(candidates)) outcomes, the i-th referring to the i-th input   *)
(* candidate, with the strictly decreasing pass-through scores 1/(i+1).     *)
C4_DegradedPassThrough ==
    Returned /\ Degraded =>
        /\ Len(rk_out) = Min(rk_in.top_k, Len(rk_in.documents))
        /\ \A i \in 1..Len(rk_out) :
            /\ rk_out[i].index = i - 1
            /\ rk_out[i].text = rk_in.documents[i]
            /\ rk_out[i].score.n * i = rk_out[i].score.d
        /\ \A i \in 1..Len(rk_out) - 1 : RLess(rk_out[i + 1].score, rk_out[i].score)
        /\ ~rk_results.raised
        /\ Len(rk_results.results) = Len(rk_out)
        /\ \A i \in 1..Len(rk_results.results) :
            rk_results.results[i].id = Candidates(rk_in.documents)[i].id

C4_Witness ==
    /\ Returned
    /\ rk_inst.initialized
    /\ rk_in.resp.kind = "raise"
    /\ rk_in.top_k >= 2
    /\ Len(rk_in.documents) > rk_in.top_k
    /\ Len(rk_out) = rk_in.top_k

RemoteCall ==
    /\ Returned
    /\ rk_inst.variant = "jina_api"
    /\ rk_inst.initialized
    /\ rk_in.documents # <<>>

(* C7: on a non-success status, a raise/timeout or a malformed body the    *)
(* remote reranker returns the pass-through ranking for that call.         *)
C7_RemoteFailurePassThrough ==
    (RemoteCall /\ rk_inst.last \in {"raise", "status", "malformed"}) =>
        /\ rk_out = PassThrough(rk_in.documents, rk_in.top_k)
        /\ ~rk_results.raised

JudgeCall ==
    /\ Returned
    /\ rk_inst.variant = "llm"
    /\ rk_inst.initialized
    /\ rk_in.documents # <<>>
Unparsed == JudgeCall /\ rk_in.resp.kind = "unparsable"
InputOrder ==
    /\ Len(rk_out) = Min(rk_in.top_k, Len(rk_in.documents))
    /\ \A i \in 1..Len(rk_out) : rk_out[i].index = i - 1
    /\ ~rk_results.raised
    /\ Len(rk_results.results) = Len(rk_out)

IdsOf(list) == [i \in 1..Len(list) |-> list[i].id]
RerankerFailed ==
    LET rr == hs_in.rr
    IN  \/ ~rr.imported
        \/ ~rr.initialized
        \/ rr.resp.kind \in {"raise", "status"}
        \/ Malformed(rr.resp, Len(hs_pre))

(* C9: with use_reranker = true, whenever the reranker is not initialized, *)
(* raises or returns malformed data, hybrid_search returns the fused        *)
(* ranking truncated to topK, in the same order, and does not fail.         *)
C9_RerankFailureKeepsFused ==
    (Fused /\ hs_in.use_reranker /\ RerankerFailed) =>
        /\ ~hs_out.raised
        /\ IdsOf(hs_out.results) = IdsOf(Take(hs_pre, hs_in.top_k))

FourFields(val) == val.t = "obj" /\ RequiredKeys \subseteq KeysOf(val)

(* C3: parse is total: for every input text it returns, without raising,   *)
(* an object in which step_by_step_analysis, reasoning_summary,             *)
(* relevant_pages and final_answer are all present.                         *)
C3_ParseTotalFourFields ==
    ps_pc = "done" => ~ps_out.raised /\ FourFields(ps_out.val)

LoadAttempts(i) == instances[i].started
RECURSIVE SumLoadAttempts(_)
SumLoadAttempts(n) == IF n = 0 THEN 0 ELSE LoadAttempts(n) + SumLoadAttempts(n - 1)

(* C5: however the calls of get_jina_reranker interleave, at most one      *)
(* model-load attempt (JinaReranker.initialize) is ever started.            *)
C5_ExclusiveInitialization == SumLoadAttempts(NumThreads) <= 1

Terminal(r) == StateOf(r) \in {"Ready", "PermanentlyDegraded"}

(* C6: once the load attempt of a local-model reranker has finished, in     *)
(* Ready or in PermanentlyDegraded, no further load attempt is started on   *)
(* it: it keeps its state and never returns to Initializing.                *)
C6_TerminalStatesStay ==
    [][\A i \in Threads :
          Terminal(instances[i]) =>
              /\ instances'[i].started = instances[i].started
              /\ StateOf(instances'[i]) = StateOf(instances[i])]_vars

FirstSearchFailed ==
    /\ ask_pc = "done"
    /\ ask_in.is_initialized
    /\ SearchFailed(ask_in.s1.vector_resp) \/ SearchFailed(ask_in.s1.keyword_resp)

(* C10: when the dense or the sparse search of an ask request fails, the    *)
(* request fails outward: the search is issued once only and the language   *)
(* model is not invoked.                                                    *)
C10_SearchFailureFailsOutward ==
    FirstSearchFailed =>
        /\ ask_out.raised
        /\ ask_out.searches = 1
        /\ ask_out.llm_calls = 0

Answered == ask_pc \in {"done", "kb_done"} /\ ~ask_out.raised

(* C11: an ask request that returns an answer has invoked the language      *)
(* model exactly once, whatever the reply was and however parsing it ended. *)
C11_ModelInvokedOnce == Answered => ask_out.llm_calls = 1

(* the keyword occurs somewhere in the question as written *)
Occurs(keyword, question) ==
    \E i \in 1..Len(question) :
        /\ i + Len(keyword) - 1 <= Len(question)
        /\ \A j \in 1..Len(keyword) : question[i + j - 1] = keyword[j]
AnyOccurs(keywords, question) ==
    \E k \in 1..Len(keywords) : Occurs(keywords[k], question)

(* C12: the answer type is number if a number keyword occurs in the         *)
(* question, else name if a name keyword occurs, else boolean if a boolean  *)
(* keyword occurs, else names if a names keyword occurs, else string.       *)
C12_AnswerTypePrecedence ==
    at_pc = "done" =>
        at_out = IF AnyOccurs(number_keywords, at_question) THEN "number"
                 ELSE IF AnyOccurs(name_keywords, at_question) THEN "name"
                 ELSE IF AnyOccurs(boolean_keywords, at_question) THEN "boolean"
                 ELSE IF AnyOccurs(names_keywords, at_question) THEN "names"
                 ELSE "string"
C12_Witness ==
    /\ at_pc = "done"
    /\ AnyOccurs(number_keywords, at_question)
    /\ AnyOccurs(name_keywords, at_question)
    /\ at_out = "number"

(* C13: parsing the canonical JSON text of a structured answer that has     *)
(* all four fields gives back that answer.                                  *)
C13_RoundTrip ==
    (ps_pc = "done" /\ ps_text.fn = "parse") =>
        \A x \in Answers :
            ps_text.text = Serialize(x) => ~ps_out.raised /\ ps_out.val = x
C13_Witness ==
    /\ ps_pc = "done"
    /\ ps_text.fn = "parse"
    /\ \E x \in Answers :
        /\ ps_text.text = Serialize(x)
        /\ Get(x, "final_answer", NotFound) = StrVal(<<"fence_json">>)
        /\ Get(x, "relevant_pages", NotFound).v # <<>>
        /\ ps_out.val = x

(* parse reached the regex recovery and found no final_answer there *)
NoFinalRecovered(text) ==
    LET processed_text == ProcessedText(text)
        json_candidate == BraceSpan(processed_text)
    IN  /\ ~JsonLoads(processed_text).ok
        /\ json_candidate # <<>> => ~JsonLoads(json_candidate).ok
        /\ json_candidate # <<>> => ~JsonLoads(CleanedJson(json_candidate)).ok
        /\ ~StringField(processed_text, "Kfinal").found

(* C14: whenever parse recovers no final_answer value, the final_answer it  *)
(* returns is the text it was given, whitespace and fence markers included. *)
C14_FinalAnswerIsRawInput ==
    (ps_pc = "done" /\ ps_text.fn = "parse" /\ NoFinalRecovered(ps_text.text)) =>
        Get(ps_out.val, "final_answer", NotFound) = StrVal(ps_text.text)

(* C15: every rerank call returns exactly min(top_k, len(documents))       *)
(* outcomes, whichever variant served it and however the model or the      *)
(* endpoint answered                                                       *)
C15_OutcomeCount ==
    rk_pc = "returned" =>
        Len(rk_out) = Min(rk_in.top_k, Len(rk_in.documents))

(* C16: every result of a reranked hybrid_search has rerank_position equal  *)
(* to its 1-based index in the returned list and original_position equal to *)
(* the 1-based index of the same candidate in the fused list                *)
C16_PositionsMatchIndexes ==
    (hs_pc = "done" /\ hs_out.reranked) =>
        \A i \in 1..Len(hs_out.results) :
            /\ hs_out.results[i].rerank_position = i
            /\ hs_out.results[i].original_position \in 1..Len(hs_pre)
            /\ hs_pre[hs_out.results[i].original_position].id = hs_out.results[i].id

(* the 1-based rank of the candidate with this id in the fused list *)
FusedRank(id) == CHOOSE i \in 1..Len(hs_pre) : hs_pre[i].id = id

(* C17: every candidate hybrid_search returns, and every entry of the       *)
(* sources list ask builds from them, carries its 1-based rank in the fused *)
(* list, whether the rerank ran, was disabled or fell back                  *)
C17_OriginalRankEverywhere ==
    (hs_pc = "done" /\ ~hs_out.raised) =>
        \A i \in 1..Len(hs_out.results) :
            /\ "original_position" \in DOMAIN hs_out.results[i]
            /\ hs_out.results[i].original_position = FusedRank(hs_out.results[i].id)
            /\ Sources(hs_out.results, hs_in.use_reranker)[i].original_position
                    = FusedRank(hs_out.results[i].id)

(* the search handed its fused list to rerank_search_results *)
RerankReached ==
    hs_pc = "done" /\ hs_in.use_reranker /\ hs_in.rr.imported /\ hs_in.rr.initialized

(* C18: the fused list is cut to 2 * top_k before the rerank stage, so the  *)
(* reranker never receives more than 2 * top_k candidates                   *)
C18_RerankerInputTruncated ==
    RerankReached => Len(Contents(hs_pre)) <= 2 * hs_in.top_k

(* when the id was first inserted into all_results: the dense hits in their *)
(* order, then the sparse hits that no dense hit had inserted               *)
InsertionIndex(id) ==
    IF InHits(hs_in.vector_resp.hits, id)
    THEN IndexOfId(hs_in.vector_resp.hits, id)
    ELSE Len(hs_in.vector_resp.hits) + IndexOfId(hs_in.keyword_resp.hits, id)

(* C19: fused candidates with equal hybrid_score come out in first-seen     *)
(* insertion order, dense hits in dense-list order before sparse-only hits  *)
(* in sparse-list order, so the order is a function of the two lists and    *)
(* the weight                                                               *)
C19_TiesInInsertionOrder ==
    Fused =>
        /\ hs_pre = PreRerankResults(hs_in.vector_resp.hits, hs_in.keyword_resp.hits,
                                     hs_in.vector_weight)
        /\ \A i, j \in 1..Len(hs_pre) :
            (i < j /\ REq(hs_pre[i].hybrid_score, hs_pre[j].hybrid_score)) =>
                InsertionIndex(hs_pre[i].id) < InsertionIndex(hs_pre[j].id)

(* a dense hit and a sparse-only hit tie, and so do two dense hits *)
C19_Witness ==
    /\ Fused
    /\ \E i, j \in 1..Len(hs_pre) :
        /\ i < j
        /\ REq(hs_pre[i].hybrid_score, hs_pre[j].hybrid_score)
        /\ InHits(hs_in.vector_resp.hits, hs_pre[i].id)
        /\ ~InHits(hs_in.vector_resp.hits, hs_pre[j].id)
    /\ \E i, j \in 1..Len(hs_pre) :
        /\ i < j
        /\ REq(hs_pre[i].hybrid_score, hs_pre[j].hybrid_score)
        /\ InHits(hs_in.vector_resp.hits, hs_pre[i].id)
        /\ InHits(hs_in.vector_resp.hits, hs_pre[j].id)

(* hybrid_search is inside the remote rerank call and the endpoint will     *)
(* never answer                                                             *)
EndpointSilent == hs_pc = "waiting" /\ hs_in.rr.resp.kind = "never"
FellBack ==
    /\ hs_pc = "done"
    /\ ~hs_out.raised
    /\ hs_out.results = Take(hs_pre, hs_in.top_k)

(* C20: the rerank call is bounded: when the rerank endpoint never          *)
(* responds, hybrid_search still eventually returns, with the fused ranking *)
(* cut to top_k                                                             *)
C20_RerankCallBounded == EndpointSilent ~> FellBack

Asked == ask_pc \in {"done", "kb_done"}
Failed(s) == SearchFailed(s.vector_resp) \/ SearchFailed(s.keyword_resp)
(* the RAG chain of the enhanced ask ran: the adaptive attempt did not return *)
ChainRan ==
    /\ ask_pc = "done"
    /\ ~(ask_in.is_initialized /\ ~Failed(ask_in.s1) /\ Structured(ask_in.adaptive_reply))
(* a search that the request issued failed *)
RetrievalFailed ==
    \/ ask_in.is_initialized /\ Failed(ask_in.s1)
    \/ ChainRan /\ Failed(ask_in.s2)
(* the basic chat, the last model call of a request, was made and failed *)
ModelInvocationFailed == ask_out.llm_calls >= 2 /\ ask_in.basic_reply.raised
NotInitializedError == ask_pc = "kb_done" /\ ~ask_in.is_initialized

C22_AtMostTopKDistinctIds ==
    (hs_pc = "done" /\ ~hs_out.raised) =>
        /\ Len(hs_out.results) <= hs_in.top_k
        /\ \A i, j \in 1..Len(hs_out.results) :
            i # j => hs_out.results[i].id # hs_out.results[j].id

CandidateFields ==
    {"id", "content", "metadata", "hybrid_score", "vector_score", "keyword_score"}
RankFields == {"rerank_score", "rerank_position", "original_position"}

(* C23: every result of rerank_search_results has the id, content,          *)
(* metadata, hybrid_score, vector_score and keyword_score of the fused      *)
(* candidate it refers to, with rerank_score, rerank_position and           *)
(* original_position added and nothing else, and the list of fused          *)
(* candidates that was passed in is not modified                            *)
C23_RerankKeepsCandidateData ==
    Returned =>
        /\ rk_results.search_results = Candidates(rk_in.documents)
        /\ \A i \in 1..Len(rk_results.results) :
            LET result == rk_results.results[i]
                original == Candidates(rk_in.documents)[result.original_position]
            IN  /\ DOMAIN result = CandidateFields \cup RankFields
                /\ \A f \in CandidateFields : result[f] = original[f]

(* the universal and the local reranker each returned two reordered results *)
C23_Witness ==
    /\ Returned
    /\ ~rk_results.raised
    /\ Len(rk_results.results) = 2
    /\ rk_results.results[1].original_position = 2
    /\ rk_inst.variant \in {"jina_local", "cross_encoder"}
    /\ rk_inst.initialized

KbAnswered == ask_pc = "kb_done" /\ ~ask_out.raised
KbSearchResults == SearchOnce(ask_in.s1, ask_in.top_k, ask_in.use_reranker).results

(* C24: KnowledgeBase.ask tries its three answer paths in order.  The       *)
(* structured chat is called only after the adaptive path raised and the    *)
(* basic chat only after the structured path raised as well; answer_type is *)
(* adaptive, the classified type or fallback accordingly; every result      *)
(* carries the sources built from the one search made at the start.         *)
C24_AnswerPathsInOrder ==
    KbAnswered =>
        /\ ~ask_in.adaptive_reply.raised =>
            /\ ask_out.answer_type = "adaptive"
            /\ ask_out.llm_calls = 1
        /\ (ask_in.adaptive_reply.raised /\ ~ask_in.structured_reply.raised) =>
            /\ ask_out.answer_type = DetermineAnswerType(ask_in.question)
            /\ ask_out.llm_calls = Invocations(ask_in.adaptive_reply) + 1
        /\ (ask_in.adaptive_reply.raised /\ ask_in.structured_reply.raised) =>
            /\ ask_out.answer_type = "fallback"
            /\ ask_out.llm_calls = Invocations(ask_in.adaptive_reply) + 2
        /\ ask_out.searches = 1
        /\ ask_out.search_results = KbSearchResults
        /\ ask_out.sources = Sources(KbSearchResults, ask_in.use_reranker)

(* the adaptive call and the structured call raised, the basic chat         *)
(* answered, and the result carries the two sources of the search           *)
C24_Witness ==
    /\ KbAnswered
    /\ ask_in.adaptive_reply = LlmRaises
    /\ ask_in.structured_reply = LlmRaises
    /\ ask_out.answer_type = "fallback"
    /\ ask_out.llm_calls = 3
    /\ Len(ask_out.sources) = 2

(* C25: while is_initialized is false no document is indexed, no search     *)
(* reaches the store and no text is embedded; an initialize or an           *)
(* add_documents that failed to initialize leaves is_initialized false; a   *)
(* true is_initialized never becomes false again                            *)
C25_NothingBeforeInitialized ==
    [][/\ ~kb.is_initialized =>
            /\ kb'.indexed = kb.indexed
            /\ kb'.queries = kb.queries
            /\ kb'.embeds = kb.embeds
       /\ kb'.refused > kb.refused =>
            /\ ~kb'.is_initialized
            /\ kb'.indexed = kb.indexed
            /\ kb'.pc = "idle"
       /\ kb.is_initialized => kb'.is_initialized]_vars

(* a search and an add_documents were refused before the knowledge base was *)
(* initialized, and documents were indexed and a search sent afterwards     *)
C25_Witness ==
    /\ kb.refused = 2
    /\ kb.is_initialized
    /\ kb.indexed > 0
    /\ kb.queries > 0

(* the score the judge gave to the i-th document of the call *)
JudgeScore(i) ==
    LET rankings == IF rk_inst.provider = "dashscope"
                    THEN DashscopeRankings(rk_in.documents)
                    ELSE rk_in.resp.rankings
    IN  IF i <= Len(rankings) /\ rankings[i].has_score
        THEN Rat(rankings[i].relevance_score, 1) ELSE Zero
Judged ==
    /\ Returned
    /\ rk_inst.variant = "llm"
    /\ rk_inst.initialized
    /\ rk_in.resp.kind = "content"

(* C26: the LLM-judge reranker returns the top_k highest-scored of all the  *)
(* candidates it was given: no candidate left out of the result has a judge *)
(* score strictly higher than a candidate in the result                     *)
C26_JudgeReturnsTopScored ==
    Judged =>
        \A i \in 1..Len(rk_in.documents), p \in 1..Len(rk_out) :
            (\A q \in 1..Len(rk_out) : rk_out[q].index # i - 1) =>
                ~RLess(JudgeScore(rk_out[p].index + 1), JudgeScore(i))

(* C27: the enhanced ask on a knowledge base that is not initialized sends  *)
(* no search to the store: the not-initialized error of search is not       *)
(* bypassed by the RAG chain of the except branch                           *)
C27_NoSearchBeforeInitialized ==
    (ask_pc = "done" /\ ~ask_in.is_initialized) => ask_out.searches = 0

(* C28: under any interleaving get_jina_reranker hands out only a reranker  *)
(* whose load attempt has finished, Ready or PermanentlyDegraded, and every *)
(* caller receives the same instance                                        *)
C28_ReturnedInstanceLoaded ==
    \A t \in Threads :
        th_pc[t] = "done" =>
            /\ Terminal(instances[th_ret[t]])
            /\ \A u \in Threads : th_pc[u] = "done" => th_ret[u] = th_ret[t]

FailedFiles == {i \in 1..Len(up.files) : up.files[i].outcome # "ok"}

(* C29: upload_batch gives every submitted file exactly one entry in        *)
(* results, goes on with the next file after a failure, reports             *)
(* success_count + failure_count = total_uploaded = number of files, and    *)
(* has status partial_success exactly when at least one file failed         *)
C29_OneResultPerFile ==
    /\ up.pc = "raised" => ~up.makedirs_ok
    /\ up.pc \in {"loop", "done"} =>
        /\ Len(up.results) <= Len(up.files)
        /\ \A i \in 1..Len(up.results) :
            /\ up.results[i].filename = up.files[i].filename
            /\ up.results[i].status = "failed" <=> i \in FailedFiles
    /\ up.pc = "done" =>
        /\ up.response.results = up.results
        /\ Len(up.response.results) = Len(up.files)
        /\ up.response.total_uploaded = Len(up.files)
        /\ up.response.success_count + up.response.failure_count = Len(up.files)
        /\ up.response.failure_count = Cardinality(FailedFiles)
        /\ up.response.status = "partial_success" <=> FailedFiles # {}
        /\ up.response.status = "success" <=> FailedFiles = {}

(* the first of three files failed and the two after it were processed *)
C29_Witness ==
    /\ up.pc = "done"
    /\ Len(up.files) = 3
    /\ up.files[1].outcome = "load_fails"
    /\ up.response.results[2].status = "success"
    /\ up.response.results[3].status = "success"
    /\ up.response.status = "partial_success"
    /\ up.response.success_count = 2

(* the search whose results the answer of the request carries *)
AnswerSearch == IF ChainRan THEN ask_in.s2 ELSE ask_in.s1
(* the fused list of that search and the outcomes its rerank stage returned *)
AnswerFused ==
    PreRerankResults(AnswerSearch.vector_resp.hits, AnswerSearch.keyword_resp.hits,
                     DefaultWeight)
AnswerOutcomes ==
    Rerank("jina_api", TRUE, "dashscope", Contents(AnswerFused),
           Min(ask_in.top_k * 2, Len(AnswerFused)), AnswerSearch.rr.resp)
(* rerank_search_results was called for the request and returned *)
RerankRan == SearchOnce(AnswerSearch, ask_in.top_k, ask_in.use_reranker).reranked
FusedScore(id) == AnswerFused[IndexOfId(AnswerFused, id)].hybrid_score

(* C30: in the sources of an answer, an entry's score is the score the      *)
(* rerank stage gave the candidate when the rerank stage ran for the        *)
(* request and the candidate's fused score when it did not; an entry        *)
(* without rerank_position reports the fused score; original_score is the   *)
(* fused score in every case                                                *)
C30_SourceScore ==
    Answered =>
        \A i \in 1..Len(ask_out.sources) :
            LET entry == ask_out.sources[i]
            IN  /\ entry.original_score = FusedScore(entry.id)
                /\ RerankRan =>
                    /\ entry.rerank_position \in 1..Len(AnswerOutcomes)
                    /\ entry.score = AnswerOutcomes[entry.rerank_position].rerank_score
                    /\ entry.id = AnswerFused[AnswerOutcomes[entry.rerank_position].index + 1].id
                /\ ~RerankRan => entry.score = FusedScore(entry.id)
                /\ entry.rerank_position = None => entry.score = FusedScore(entry.id)

(* the chain answered with two reranked candidates, the second fused        *)
(* candidate first with the endpoint's score                                *)
C30_Witness ==
    /\ Answered
    /\ ChainRan
    /\ RerankRan
    /\ AnswerSearch.rr.resp.kind = "ok"
    /\ Len(ask_out.sources) = 2
    /\ ask_out.sources[1].id = 2
    /\ ask_out.sources[1].score = Rat(MaxScore, 1)
    /\ ask_out.sources[1].score # ask_out.sources[1].original_score
    /\ ask_out.sources[1].original_position = 2
====
